---- MODULE Spec2Model ----
(***************************************************************************)
(* Model of the Kliver deployment orchestrator (package kliver_deploy):    *)
(* the deploy-all run of deploy.py, the per-contract flow of               *)
(* ContractDeployer (deployer.py), the contract types of contracts.py and  *)
(* TransactionWaiter.wait_for_confirmation (utils.py).                     *)
(*                                                                         *)
(* Spec explores deploy-all runs, SingleSpec single-contract runs (with    *)
(* the clock that names the record files), CompareSpec the address         *)
(* comparison alone and CalldataSpec the constructor calldata alone.       *)
(* SetterSpec explores one call of a generic setter, BothSpec the two      *)
(* address comparisons on the same pair of texts, EntrySpec the creation   *)
(* of a ContractDeployer by an entry point and ByteArraySpec the ByteArray *)
(* calldata of a text.                                                     *)
(*                                                                         *)
(* Text values (addresses, calldata words) are sequences of one-character  *)
(* strings; the empty sequence stands for Python's None / empty string.    *)
(* The chain behind sncast is the environment: every command's outcome is  *)
(* chosen nondeterministically among the outputs the code distinguishes.   *)
(*                                                                         *)
(* deployer.py and deploy.py are written against a utils module whose      *)
(* TransactionWaiter takes a third constructor argument and whose          *)
(* StarknetUtils has parse_contract_address_from_call; utils.py under src  *)
(* has neither, so that parser is modelled from its callers and from the   *)
(* specification, and the polling loop is modelled from utils.py.          *)
(***************************************************************************)
EXTENDS Integers, Sequences, FiniteSets, TLC

\* ------------------------------------------------------------------ bounds
MaxRuns == 2
MaxAttemptsBound == 3
MaxHexDigits == 3
MaxSingleRuns == 2
MaxClock == 1

\* --------------------------------------------------------------- constants
None == << >>

CoreTypes == {"nft", "kliver_tokens_core", "registry", "klive_pox"}
OptionalTypes == {"session_marketplace", "sessions_marketplace"}
CONTRACTS == CoreTypes \cup OptionalTypes

AccountAddr == <<"0", "x", "a", "c">>
OwnerAddr == <<"0", "x", "0", "B">>
VerifierAddr == <<"0", "x", "0", "0", "F", "e">>
PaymentTokenAddr == <<"0", "x", "0", "E">>
ZeroAddr == <<"0", "x", "0">>
BaseUri == <<117, 47>>
TimeoutStr == <<"6", "0">>

DecDigits == <<"0", "1", "2", "3", "4", "5", "6", "7", "8", "9">>

RECURSIVE str(_)
str(n) == IF n < 10 THEN <<DecDigits[n + 1]>>
          ELSE str(n \div 10) \o <<DecDigits[(n % 10) + 1]>>

TypeIndex(c) ==
    CASE c = "nft" -> 1 [] c = "kliver_tokens_core" -> 2 [] c = "registry" -> 3
      [] c = "klive_pox" -> 4 [] c = "session_marketplace" -> 5
      [] c = "sessions_marketplace" -> 6

\* the address the chain gives to the deployment of type c made by run n
\* (zero padded, upper case; every deployment gets an address of its own)
DeployedAddr(n, c) == <<"0", "x", "0", "D">> \o str(n) \o str(TypeIndex(c))

\* the class identifier the chain computes for an artifact
ClassHashOf(c) == <<"class", c>>
DeclareTx(c) == <<"tx", "declare", c>>
DeployTx(c) == <<"tx", "deploy", c>>
InvokeTx(fn) == <<"tx", "invoke", fn>>

\* ------------------------------------------------------ string operations
LowerChar(ch) ==
    CASE ch = "A" -> "a" [] ch = "B" -> "b" [] ch = "C" -> "c"
      [] ch = "D" -> "d" [] ch = "E" -> "e" [] ch = "F" -> "f"
      [] ch = "X" -> "x" [] OTHER -> ch

lower(s) == [i \in 1..Len(s) |-> LowerChar(s[i])]

RECURSIVE lstrip0(_)
lstrip0(s) == IF s # << >> /\ Head(s) = "0" THEN lstrip0(Tail(s)) ELSE s

RECURSIVE replace0x(_)
replace0x(s) ==
    IF Len(s) < 2 THEN s
    ELSE IF s[1] = "0" /\ s[2] = "x" THEN replace0x(SubSeq(s, 3, Len(s)))
    ELSE <<s[1]>> \o replace0x(Tail(s))

startswith0x(s) == Len(s) >= 2 /\ s[1] = "0" /\ s[2] = "x"

\* normalize_address with a single leading zero removed
normalize_address_once(addr) ==
    IF startswith0x(addr)
    THEN LET digits == SubSeq(addr, 3, Len(addr))
             hex_part == IF digits # << >> /\ Head(digits) = "0"
                         THEN Tail(digits) ELSE digits
         IN <<"0", "x">> \o (IF hex_part # << >> THEN hex_part ELSE <<"0">>)
    ELSE addr

\* deployer.py:333-338
normalize_address(addr) ==
    IF startswith0x(addr)
    THEN LET hex_part == lstrip0(SubSeq(addr, 3, Len(addr)))
         IN <<"0", "x">> \o (IF hex_part # << >> THEN hex_part ELSE <<"0">>)
    ELSE addr

\* deploy.py:324-325, deployer.py:755-756
strip_compare_form(addr) == lstrip0(replace0x(lower(addr)))

\* the texts a read-back call can print for a getter whose slot was set to e
ReadBacks(e) ==
    {e, normalize_address(lower(e)), <<"0", "x", "0", "0">> \o SubSeq(lower(e), 3, Len(e)),
     ZeroAddr, OwnerAddr}

\* ---------------------------------------------------------- contract types
kw(k, v) == [key |-> k, value |-> v]

RECURSIVE kwget(_, _)
kwget(kwargs, k) ==
    IF kwargs = << >> THEN None
    ELSE IF Head(kwargs).key = k THEN Head(kwargs).value
    ELSE kwget(Tail(kwargs), k)

AddressKeys == {"nft_address", "token_simulation_address", "verifier_address",
                "registry_address", "pox_address", "payment_token_address"}

\* dep_type.replace('_address', '') (deployer.py:558)
dep_contract_type(k) ==
    CASE k = "nft_address" -> "nft"
      [] k = "token_simulation_address" -> "token_simulation"
      [] k = "verifier_address" -> "verifier"
      [] k = "registry_address" -> "registry"
      [] k = "pox_address" -> "pox"
      [] k = "payment_token_address" -> "payment_token"
      [] OTHER -> k

\* deployer.py:435-443
validation_functions(t) ==
    CASE t = "nft" -> "name"
      [] t = "registry" -> "get_owner"
      [] t = "token" -> "balance_of"
      [] t = "token_simulation" -> "balance_of"
      [] t = "pox" -> "get_registry_address"
      [] t = "payment_token" -> "total_supply"
      [] OTHER -> "None"

\* Python integers have no width: an integer is the sequence of its limbs in
\* base 10000, least significant first, the empty sequence being zero.
\* limbs[i..] * m + a, for a multiplier and a carry below 10000
RECURSIVE big_muladd(_, _, _, _)
big_muladd(limbs, i, m, a) ==
    IF i > Len(limbs)
    THEN (IF a = 0 THEN << >> ELSE <<a>>)
    ELSE LET v == limbs[i] * m + a
         IN <<v % 10000>> \o big_muladd(limbs, i + 1, m, v \div 10000)

\* the four decimal digits of a limb
limb_str(n) ==
    <<DecDigits[(n \div 1000) + 1], DecDigits[((n \div 100) % 10) + 1],
      DecDigits[((n \div 10) % 10) + 1], DecDigits[(n % 10) + 1]>>

RECURSIVE limbs_str(_, _)
limbs_str(limbs, i) ==
    IF i = 0 THEN << >> ELSE limb_str(limbs[i]) \o limbs_str(limbs, i - 1)

\* str(chunk_int) (utils.py:93)
big_str(limbs) ==
    IF limbs = << >> THEN <<"0">>
    ELSE str(limbs[Len(limbs)]) \o limbs_str(limbs, Len(limbs) - 1)

\* from_bytes with byteorder='little'
RECURSIVE from_bytes_little(_)
from_bytes_little(chunk) ==
    IF chunk = << >> THEN << >>
    ELSE big_muladd(from_bytes_little(Tail(chunk)), 1, 256, Head(chunk))

\* int.from_bytes(chunk, byteorder='big') (utils.py:92)
RECURSIVE from_bytes(_)
from_bytes(chunk) ==
    IF chunk = << >> THEN << >>
    ELSE big_muladd(from_bytes(SubSeq(chunk, 1, Len(chunk) - 1)), 1, 256,
                    chunk[Len(chunk)])

chunk_size == 31

\* text.encode('utf-8') (utils.py:83) of one code point below 65536
utf8(cp) ==
    IF cp < 128 THEN <<cp>>
    ELSE IF cp < 2048 THEN <<192 + (cp \div 64), 128 + (cp % 64)>>
    ELSE <<224 + (cp \div 4096), 128 + ((cp \div 64) % 64), 128 + (cp % 64)>>

\* text.encode('utf-8') (utils.py:83); a text is the sequence of its code points
RECURSIVE encode(_)
encode(text) ==
    IF text = << >> THEN << >> ELSE utf8(Head(text)) \o encode(Tail(text))

\* the chunks text_bytes[i:i + chunk_size] of utils.py:89-93, already as
\* str(int)
RECURSIVE chunks_of(_)
chunks_of(text_bytes) ==
    IF text_bytes = << >> THEN << >>
    ELSE IF Len(text_bytes) <= chunk_size
    THEN <<big_str(from_bytes(text_bytes))>>
    ELSE <<big_str(from_bytes(SubSeq(text_bytes, 1, chunk_size)))>>
         \o chunks_of(SubSeq(text_bytes, chunk_size + 1, Len(text_bytes)))

\* utils.py:76-109
string_to_bytearray_calldata(text) ==
    IF text = << >> THEN <<<<"0">>, <<"0">>, <<"0">>>>
    ELSE LET text_bytes == encode(text)
             chunks == chunks_of(text_bytes)
             pending_word == chunks[Len(chunks)]
             full_words == SubSeq(chunks, 1, Len(chunks) - 1)
             rem == Len(text_bytes) % chunk_size
             last_chunk_len ==
                 IF rem = 0 /\ Len(text_bytes) > 0 THEN chunk_size ELSE rem
         IN <<str(Len(full_words))>> \o full_words
            \o <<pending_word, str(last_chunk_len)>>

\* "https://api.kliver.io/metadata/" (contracts.py:101)
DefaultBaseUri ==
    <<104, 116, 116, 112, 115, 58, 47, 47, 97, 112, 105, 46, 107, 108, 105, 118,
      101, 114, 46, 105, 111, 47, 109, 101, 116, 97, 100, 97, 116, 97, 47>>

\* contracts.py: validate_dependencies of each contract class
validate_dependencies(c, kwargs) ==
    CASE c = "registry" ->
            kwget(kwargs, "nft_address") # None
            /\ kwget(kwargs, "token_simulation_address") # None
      [] c \in {"klive_pox", "session_marketplace"} ->
            kwget(kwargs, "registry_address") # None
      [] c = "sessions_marketplace" ->
            /\ kwget(kwargs, "pox_address") # None
            /\ kwget(kwargs, "verifier_address") # None
            /\ kwget(kwargs, "payment_token_address") # None
            /\ kwget(kwargs, "purchase_timeout_seconds") # None
      [] OTHER -> TRUE

\* get_constructor_calldata with the values taken in the order the keyword
\* arguments were supplied
get_constructor_calldata_as_supplied(c, owner_address, kwargs) ==
    (IF c \in {"nft", "kliver_tokens_core", "registry"}
     THEN <<owner_address>> ELSE << >>)
    \o [i \in 1..Len(kwargs) |-> kwargs[i].value]

\* contracts.py: get_constructor_calldata of each contract class
get_constructor_calldata(c, owner_address, kwargs) ==
    CASE c = "nft" ->
            <<owner_address>> \o
            (IF kwget(kwargs, "base_uri") # None
             THEN string_to_bytearray_calldata(kwget(kwargs, "base_uri"))
             ELSE <<<<"0">>, <<"0">>, <<"0">>>>)
      [] c = "kliver_tokens_core" ->
            <<owner_address>> \o
            string_to_bytearray_calldata(
                IF kwget(kwargs, "base_uri") # None
                THEN kwget(kwargs, "base_uri") ELSE DefaultBaseUri)
      [] c = "registry" ->
            <<owner_address, kwget(kwargs, "nft_address"),
              kwget(kwargs, "token_simulation_address"),
              IF \E i \in 1..Len(kwargs) : kwargs[i].key = "verifier_address"
              THEN kwget(kwargs, "verifier_address") ELSE ZeroAddr>>
      [] c \in {"klive_pox", "session_marketplace"} ->
            <<kwget(kwargs, "registry_address")>>
      [] c = "sessions_marketplace" ->
            <<kwget(kwargs, "pox_address"), kwget(kwargs, "verifier_address"),
              kwget(kwargs, "payment_token_address"),
              kwget(kwargs, "purchase_timeout_seconds")>>

\* ------------------------------------------------------------------- state
VARIABLES
    chain,               \* the chain: the declared classes
    cfg,                 \* command line options and deployment_config.yml
    disk,                \* the clock and the record files of the working directory
    run,                 \* runs started, result of deploy_all_contracts, exit code
    pc,                  \* position of the single thread of control
    step,                \* contract type whose ContractDeployer is running
    flow,                \* locals of deploy_full_flow / declare / deploy
    deployments,         \* deploy.py: deployments (list of records)
    deployed_addresses,  \* deploy.py: deployed_addresses
    verifier_address,    \* deploy.py: verifier_address (reassigned at step 3)
    persisted,           \* records written by save_deployment_info in this run
    ops,                 \* chain operations submitted in this run, in order
    w,                   \* locals of wait_for_confirmation
    link,                \* results of the post-deployment configuration steps
    declare_hist,        \* per artifact, the results of all declare_contract calls
    confirmed,           \* deployment and setter transactions a wait of this run confirmed
    attempted,           \* contract types deploy_full_flow was called for in this run
    readback             \* locals of the address comparison of a read-back

vars == <<chain, cfg, disk, run, pc, step, flow, deployments, deployed_addresses,
          verifier_address, persisted, ops, w, link, declare_hist, confirmed,
          attempted, readback>>

Roles == {"nft", "token", "registry", "pox", "session_marketplace",
          "sessions_marketplace"}

\* dict.get(k, default) on a section of the configuration file
dict_get(d, k, default) ==
    LET hits == {i \in 1..Len(d) : d[i].key = k}
    IN IF hits = {} THEN default ELSE d[CHOOSE i \in hits : TRUE].value

\* config.py:120-131: the deployment settings of an environment, with the
\* defaults of the keys its deployment_settings section leaves out
get_deployment_settings(env_config) ==
    LET settings_data == env_config.deployment_settings
    IN [wait_timeout |-> dict_get(settings_data, "wait_timeout", 120),
        retry_interval |-> dict_get(settings_data, "retry_interval", 2),
        max_retries |-> dict_get(settings_data, "max_retries", 20)]

\* utils.py:185: time.sleep(5) between two status queries
sleep_seconds == 5

\* the options and configurations explored
BaseConfigs ==
    { [opt |-> {"session_marketplace", "sessions_marketplace"}, no_compile |-> TRUE,
       owner |-> None, verifier_cli |-> None, verifier_cfg |-> VerifierAddr,
       payment_token |-> PaymentTokenAddr, timeout |-> TimeoutStr,
       deployment_settings |-> << >>],
      [opt |-> {"sessions_marketplace"}, no_compile |-> FALSE,
       owner |-> OwnerAddr, verifier_cli |-> VerifierAddr, verifier_cfg |-> None,
       payment_token |-> PaymentTokenAddr, timeout |-> TimeoutStr,
       deployment_settings |-> <<kw("max_retries", 2), kw("retry_interval", 5)>>],
      [opt |-> {"sessions_marketplace"}, no_compile |-> TRUE,
       owner |-> None, verifier_cli |-> None, verifier_cfg |-> None,
       payment_token |-> None, timeout |-> TimeoutStr,
       deployment_settings |-> <<kw("max_retries", 1)>>],
      [opt |-> {"sessions_marketplace"}, no_compile |-> TRUE,
       owner |-> OwnerAddr, verifier_cli |-> None, verifier_cfg |-> None,
       payment_token |-> PaymentTokenAddr, timeout |-> TimeoutStr,
       deployment_settings |-> << >>],
      [opt |-> {}, no_compile |-> TRUE,
       owner |-> OwnerAddr, verifier_cli |-> None, verifier_cfg |-> None,
       payment_token |-> None, timeout |-> None,
       deployment_settings |-> << >>] }

\* the command-line addresses that only the single-contract mode reads
NoCli ==
    [nft_address |-> None, token_simulation_address |-> None,
     registry_address |-> None]

\* every configuration is run once; the one without marketplaces is re-run.
\* The deploy-all runs are explored within one second of the clock
AllScenarios ==
    { [base |-> b, runs |-> IF b.opt = {} THEN MaxRuns ELSE 1, clock |-> 0,
       contract |-> "all", cli |-> NoCli, environment_ok |-> TRUE,
       missing |-> {}] : b \in BaseConfigs }

\* the configuration files with a defect: the environment is not one of the
\* file, or the file has no entry for one of the core contracts
DefectScenarios ==
    LET b == CHOOSE b \in BaseConfigs : b.opt = {}
    IN { [base |-> b, runs |-> 1, clock |-> 0, contract |-> "all",
          cli |-> NoCli, environment_ok |-> FALSE, missing |-> {}],
         [base |-> b, runs |-> 1, clock |-> 0, contract |-> "all",
          cli |-> NoCli, environment_ok |-> TRUE, missing |-> {"klive_pox"}] }

Scenarios == AllScenarios \cup DefectScenarios

FlowInit ==
    [contract |-> "none", kwargs |-> << >>, depIdx |-> 0, probe |-> "none",
     owner_address |-> None, class_hash |-> None,
     declare_kind |-> "none", declare_tx |-> None, declare_wait |-> "none",
     contract_address |-> None, deployment_tx_hash |-> None,
     calldata |-> << >>, deploy_wait |-> "none", returned_address |-> None,
     result |-> "none"]

WInit ==
    [ctx |-> "none", tx |-> None, max_attempts |-> 0, attempt |-> 0, queries |-> 0, sleeps |-> 0,
     successes |-> 0, allPending |-> TRUE, sawRejected |-> FALSE,
     sawError |-> FALSE,
     result |-> "none"]

LinkInit ==
    [set_pox |-> "none", pox_verify |-> "none", set_registry_tx |-> None,
     set_registry_result |-> "none", sm_verify |-> "none"]

\* no comparison made
NoReadback ==
    [made |-> FALSE, by |-> "none", expected |-> None, returned |-> None,
     verdict |-> "none"]

\* the clock reads second 0 and the working directory holds no record file
DiskInit == [now |-> 0, files |-> {}]

RunLocalInit ==
    /\ step = "none"
    /\ flow = FlowInit
    /\ deployments = << >>
    /\ deployed_addresses = [r \in Roles |-> None]
    /\ verifier_address = None
    /\ persisted = << >>
    /\ ops = << >>
    /\ w = WInit
    /\ link = LinkInit
    /\ confirmed = {}
    /\ attempted = {}
    /\ readback = NoReadback

Init ==
    /\ chain = [declared |-> {}]
    /\ disk = DiskInit
    /\ cfg \in Scenarios
    /\ run = [n |-> 0, success |-> "none", exit_code |-> -1]
    /\ pc = "idle"
    /\ declare_hist = [c \in CONTRACTS |-> << >>]
    /\ RunLocalInit

Op(o, c, target, fn, args, ch) ==
    [op |-> o, contract |-> c, target |-> target, fn |-> fn, args |-> args,
     class_hash |-> ch]

\* ------------------------------------------------- deploy.py: deploy (all)
\* deploy.py:78-82, 98-105 and 208-211: a deploy-all run starts, unless the
\* environment is not one of the configuration file
deploy ==
    /\ pc = "idle"
    /\ cfg.contract = "all"
    /\ run.n < cfg.runs
    /\ run' = [n |-> run.n + 1,
               success |-> IF cfg.environment_ok THEN "none" ELSE "Error",
               exit_code |-> -1]
    /\ pc' = IF cfg.environment_ok THEN "step_begin" ELSE "exit"
    /\ step' = IF cfg.environment_ok THEN "nft" ELSE "none"
    /\ flow' = FlowInit
    /\ deployments' = << >>
    /\ deployed_addresses' = [r \in Roles |-> None]
    /\ verifier_address' = cfg.base.verifier_cli
    /\ persisted' = << >>
    /\ ops' = << >>
    /\ w' = WInit
    /\ link' = LinkInit
    /\ confirmed' = {}
    /\ attempted' = {}
    /\ UNCHANGED <<chain, cfg, disk, declare_hist, readback>>

\* StepKwargs with KlivePox given the NFT address for its registry
StepKwargs_wrongdep(c, verif) ==
    CASE c \in {"nft", "kliver_tokens_core"} -> <<kw("base_uri", BaseUri)>>
      [] c = "registry" ->
            <<kw("nft_address", deployed_addresses["nft"]),
              kw("token_simulation_address", deployed_addresses["token"]),
              kw("verifier_address", verif)>>
      [] c = "klive_pox" ->
            <<kw("registry_address", deployed_addresses["nft"])>>
      [] c = "session_marketplace" ->
            <<kw("registry_address", deployed_addresses["registry"])>>
      [] c = "sessions_marketplace" ->
            <<kw("pox_address", deployed_addresses["pox"]),
              kw("verifier_address", verif),
              kw("payment_token_address", cfg.base.payment_token),
              kw("purchase_timeout_seconds", cfg.base.timeout)>>

\* the keyword arguments deploy_all_contracts passes to deploy_full_flow
StepKwargs(c, verif) ==
    CASE c \in {"nft", "kliver_tokens_core"} -> <<kw("base_uri", BaseUri)>>
      [] c = "registry" ->
            <<kw("nft_address", deployed_addresses["nft"]),
              kw("token_simulation_address", deployed_addresses["token"]),
              kw("verifier_address", verif)>>
      [] c \in {"klive_pox", "session_marketplace"} ->
            <<kw("registry_address", deployed_addresses["registry"])>>
      [] c = "sessions_marketplace" ->
            <<kw("pox_address", deployed_addresses["pox"]),
              kw("verifier_address", verif),
              kw("payment_token_address", cfg.base.payment_token),
              kw("purchase_timeout_seconds", cfg.base.timeout)>>

\* config.py:103-107: get_contract_config raises ValueError for a contract
\* that has no entry in the environment
has_contract_config(contract_name) == contract_name \notin cfg.missing

\* deploy.py:213-219, 229-235, 245-260, 270-273, 365-369, 377-393:
\* the orchestrator creates the step's ContractDeployer (deployer.py:33: an
\* absent entry raises, deploy.py:132-137 exits) and calls deploy_full_flow,
\* or skips an optional step
begin_step ==
    /\ pc = "step_begin"
    /\ LET verif ==
               IF step = "registry" /\ verifier_address = None
               THEN (IF cfg.base.verifier_cfg # None THEN cfg.base.verifier_cfg
                     ELSE ZeroAddr)
               ELSE verifier_address
           verif_addr ==
               IF verif # None THEN verif ELSE cfg.base.verifier_cfg
           skip ==
               \/ step \in OptionalTypes /\ step \notin cfg.base.opt
               \/ /\ step = "sessions_marketplace"
                  /\ \/ deployed_addresses["pox"] = None
                     \/ verif_addr = None
                     \/ cfg.base.payment_token = None
                     \/ cfg.base.timeout = None
       IN /\ verifier_address' = verif
          /\ IF skip
             THEN IF step = "session_marketplace"
                  THEN /\ step' = "sessions_marketplace"
                       /\ pc' = "step_begin"
                       /\ UNCHANGED <<flow, run, attempted>>
                  ELSE /\ run' = [run EXCEPT !.success = "True"]
                       /\ pc' = "exit"
                       /\ UNCHANGED <<flow, step, attempted>>
             ELSE IF ~has_contract_config(step)
             THEN /\ run' = [run EXCEPT !.success = "Error"]
                  /\ pc' = "exit"
                  /\ UNCHANGED <<flow, step, attempted>>
             ELSE /\ flow' = [FlowInit EXCEPT
                                !.contract = step,
                                !.kwargs = StepKwargs(step,
                                    IF step = "sessions_marketplace"
                                    THEN verif_addr ELSE verif)]
                  /\ pc' = "check_prerequisites"
                  /\ attempted' = attempted \cup {step}
                  /\ UNCHANGED <<step, run>>
    /\ UNCHANGED <<chain, cfg, disk, deployments, deployed_addresses, persisted, ops,
                   w, link, declare_hist, confirmed, readback>>

\* ---------------------------------- deployer.py: ContractDeployer, one flow
FlowFails ==
    /\ flow' = [flow EXCEPT !.result = "fail"]
    /\ pc' = "flow_return"

\* the keyword arguments deploy_full_flow probes (deployer.py:556-557)
ProbedDeps(kwargs) ==
    SelectSeq(kwargs, LAMBDA e : e.key \in AddressKeys /\ e.value # None)

AfterAccountPc(kwargs) ==
    IF ProbedDeps(kwargs) # << >> THEN "validate_deps" ELSE "compile"

\* deployer.py:42-65
check_prerequisites ==
    /\ pc = "check_prerequisites"
    /\ \E ok \in BOOLEAN :
          IF ok THEN pc' = "get_account_info" /\ UNCHANGED flow
          ELSE FlowFails
    /\ UNCHANGED <<chain, cfg, disk, run, step, deployments, deployed_addresses,
                   verifier_address, persisted, ops, w, link, declare_hist, confirmed, attempted, readback>>

\* deployer.py:67-86 and 546-553
get_account_info ==
    /\ pc = "get_account_info"
    /\ \E found \in BOOLEAN :
          IF found
          THEN /\ flow' = [flow EXCEPT
                             !.owner_address =
                                 IF cfg.base.owner # None THEN cfg.base.owner
                                 ELSE AccountAddr,
                             !.depIdx = 1]
               /\ pc' = AfterAccountPc(flow.kwargs)
          ELSE FlowFails
    /\ UNCHANGED <<chain, cfg, disk, run, step, deployments, deployed_addresses,
                   verifier_address, persisted, ops, w, link, declare_hist, confirmed, attempted, readback>>

\* what the read call of a probe can give: it succeeds, fails with an output
\* that reports a Cairo Zero contract, or fails otherwise
ProbeOutputs == {"ok", "cairo_zero", "fail"}

\* probe_passes with the Cairo Zero allowance given to every contract type
probe_passes_any_cairo0(contract_type, out) ==
    out = "ok" \/ out = "cairo_zero"

\* deployer.py:482-496: the result of validate_contract for a probe output
probe_passes(contract_type, out) ==
    out = "ok" \/ (out = "cairo_zero" /\ contract_type = "payment_token")

\* deployer.py:430-496 called from the loop of 556-560: one dependency probe
validate_contract ==
    /\ pc = "validate_deps"
    /\ LET deps == ProbedDeps(flow.kwargs)
           dep == deps[flow.depIdx]
           contract_type == dep_contract_type(dep.key)
           function_name == validation_functions(contract_type)
           next(out) ==
                   /\ flow' = [flow EXCEPT !.depIdx = flow.depIdx + 1,
                                           !.probe = out]
                   /\ pc' = IF flow.depIdx < Len(deps) THEN "validate_deps"
                            ELSE "compile"
       IN IF contract_type = "verifier"
          THEN next("none") /\ UNCHANGED ops
          ELSE IF function_name = "None"
          THEN FlowFails /\ UNCHANGED ops
          ELSE /\ ops' = Append(ops, Op("call", step, dep.value, function_name,
                                        << >>, None))
               /\ \E out \in ProbeOutputs :
                     IF probe_passes(contract_type, out)
                     THEN next(out)
                     ELSE /\ flow' = [flow EXCEPT !.result = "fail",
                                                  !.probe = out]
                          /\ pc' = "flow_return"
    /\ UNCHANGED <<chain, cfg, disk, run, step, deployments, deployed_addresses,
                   verifier_address, persisted, w, link, declare_hist, confirmed, attempted, readback>>

\* deployer.py:88-95 and 562-568
compile_contract ==
    /\ pc = "compile"
    /\ IF cfg.base.no_compile
       THEN pc' = "declare" /\ flow' = [flow EXCEPT !.probe = "none"]
       ELSE \E ok \in BOOLEAN :
               IF ok THEN pc' = "declare" /\ flow' = [flow EXCEPT !.probe = "none"]
               ELSE /\ flow' = [flow EXCEPT !.result = "fail", !.probe = "none"]
                    /\ pc' = "flow_return"
    /\ UNCHANGED <<chain, cfg, disk, run, step, deployments, deployed_addresses,
                   verifier_address, persisted, ops, w, link, declare_hist, confirmed, attempted, readback>>

\* ------------------------------------------------------------ the waiter
\* what `sncast tx-status` can answer (CommandRunner.run_command result)
StatusOutputs ==
    { [success |-> TRUE, stdout |-> "AcceptedOnL2"],
      [success |-> TRUE, stdout |-> "Succeeded"],
      [success |-> TRUE, stdout |-> "Received"],
      [success |-> TRUE, stdout |-> "Rejected"],
      [success |-> FALSE, stdout |-> ""] }

\* status_confirmed without the "Succeeded" marker
status_confirmed_l2only(result) ==
    result.success /\ result.stdout = "AcceptedOnL2"

\* status_confirmed with a failed status command taken for a confirmation
status_confirmed_onerror(result) ==
    ~result.success \/ result.stdout \in {"AcceptedOnL2", "Succeeded"}

\* utils.py:179
status_confirmed(result) ==
    result.success /\ result.stdout \in {"AcceptedOnL2", "Succeeded"}

\* sleep_after with the sleep taken after the last attempt too
sleep_after_always(attempt, max_attempts) == attempt < max_attempts

\* utils.py:183
sleep_after(attempt, max_attempts) == attempt < max_attempts - 1

\* loop_continues over range(max_attempts + 1)
loop_continues_extra(attempt, max_attempts) == attempt + 1 < max_attempts + 1

\* utils.py:171: for attempt in range(max_attempts)
loop_continues(attempt, max_attempts) == attempt + 1 < max_attempts

\* wait_for_confirmation(tx_hash, max_attempts) is entered; the attempt budget
\* ranges over 1..MaxAttemptsBound
StartWait(ctx, tx) ==
    /\ \E n \in 1..MaxAttemptsBound :
          w' = [WInit EXCEPT !.ctx = ctx, !.tx = tx, !.max_attempts = n]
    /\ pc' = "wait_query"

\* utils.py:171 and 187-188: the next attempt, or the return after the last
NextAttempt(seen) ==
    IF loop_continues(seen.attempt, seen.max_attempts)
    THEN /\ w' = [seen EXCEPT !.attempt = seen.attempt + 1]
         /\ pc' = "wait_query"
    ELSE /\ w' = [seen EXCEPT !.result = "TimedOut"]
         /\ pc' = "wait_done"

\* utils.py:171-188: one attempt's status query, with the return when it
\* confirms or when no sleep follows the last attempt
wait_for_confirmation ==
    /\ pc = "wait_query"
    /\ \E result \in StatusOutputs :
          LET seen == [w EXCEPT
                         !.queries = w.queries + 1,
                         !.successes = w.successes
                             + (IF result.success /\ result.stdout
                                      \in {"AcceptedOnL2", "Succeeded"}
                                THEN 1 ELSE 0),
                         !.allPending = w.allPending /\ result.success
                                        /\ result.stdout = "Received",
                         !.sawRejected = w.sawRejected
                                         \/ result.stdout = "Rejected",
                         !.sawError = w.sawError \/ ~result.success]
          IN IF status_confirmed(result)
             THEN /\ w' = [seen EXCEPT !.result = "Confirmed"]
                  /\ pc' = "wait_done"
                  /\ confirmed' = IF w.ctx \in {"deploy", "set_registry"}
                                  THEN confirmed \cup {w.tx} ELSE confirmed
                  /\ chain' = IF w.ctx = "declare"
                              THEN [chain EXCEPT !.declared = @ \cup {step}]
                              ELSE chain
             ELSE /\ UNCHANGED <<chain, confirmed>>
                  /\ IF sleep_after(w.attempt, w.max_attempts)
                     THEN /\ w' = seen
                          /\ pc' = "wait_sleep"
                     ELSE NextAttempt(seen)
    /\ UNCHANGED <<cfg, disk, run, step, flow, deployments, deployed_addresses,
                   verifier_address, persisted, ops, link, declare_hist,
                   attempted, readback>>

\* utils.py:183-185: time.sleep(5), then the loop goes on
wait_sleep ==
    /\ pc = "wait_sleep"
    /\ NextAttempt([w EXCEPT !.sleeps = w.sleeps + 1])
    /\ UNCHANGED <<chain, cfg, disk, run, step, flow, deployments, deployed_addresses,
                   verifier_address, persisted, ops, link, declare_hist,
                   confirmed, attempted, readback>>

\* --------------------------------------------------------------- declare
\* what `sncast declare` can print for artifact c
DeclareOutputs(c) ==
    IF c \in chain.declared
    THEN { [kind |-> "already", class_hash |-> None, tx_hash |-> None,
            already |-> ClassHashOf(c)],
           [kind |-> "error", class_hash |-> None, tx_hash |-> None,
            already |-> None] }
    ELSE { [kind |-> "fresh_tx", class_hash |-> ClassHashOf(c),
            tx_hash |-> DeclareTx(c), already |-> None],
           [kind |-> "fresh_notx", class_hash |-> ClassHashOf(c),
            tx_hash |-> None, already |-> None],
           [kind |-> "error", class_hash |-> None, tx_hash |-> None,
            already |-> None] }

\* declare_parse with the already-declared report taken for a failure
declare_parse_strict(out) ==
    IF out.class_hash # None
    THEN [class_hash |-> out.class_hash, tx |-> out.tx_hash]
    ELSE [class_hash |-> None, tx |-> None]

\* declare_parse with the already-declared pattern capturing one word too few
declare_parse_short(out) ==
    IF out.class_hash # None
    THEN [class_hash |-> out.class_hash, tx |-> out.tx_hash]
    ELSE IF out.already # None
    THEN [class_hash |-> SubSeq(out.already, 1, 1), tx |-> None]
    ELSE [class_hash |-> None, tx |-> None]

\* deployer.py:122-156: what declare_contract makes of the command's output
declare_parse(out) ==
    IF out.class_hash # None
    THEN [class_hash |-> out.class_hash, tx |-> out.tx_hash]
    ELSE IF out.already # None
    THEN [class_hash |-> out.already, tx |-> None]
    ELSE [class_hash |-> None, tx |-> None]

\* declare_contract returns class_hash; kind is what the command had printed
DeclareReturns(c, class_hash, kind) ==
    declare_hist' =
        [declare_hist EXCEPT
           ![c] = Append(@, [class_hash |-> class_hash,
                             kind |-> IF kind \in {"fresh_tx", "fresh_notx"}
                                      THEN "fresh" ELSE kind])]

\* deploy_full_flow with the missing class hash let through
declaration_failed_never(class_hash) == FALSE

\* deployer.py:571-574: if not class_hash, "Declaration failed. Deployment
\* aborted." and deploy_full_flow returns None
declaration_failed(class_hash) == class_hash = None

\* deployer.py:97-156 up to the wait, and 571-574
declare_contract ==
    /\ pc = "declare"
    /\ ops' = Append(ops, Op("declare", step, None, "", << >>, None))
    /\ \E out \in DeclareOutputs(step) :
          LET r == declare_parse(out)
          IN /\ chain' = IF out.kind = "fresh_notx"
                         THEN [chain EXCEPT !.declared = @ \cup {step}]
                         ELSE chain
             /\ IF r.class_hash # None /\ r.tx # None
                THEN /\ flow' = [flow EXCEPT !.class_hash = r.class_hash,
                                             !.declare_kind = out.kind,
                                             !.declare_tx = r.tx]
                     /\ StartWait("declare", r.tx)
                     /\ UNCHANGED declare_hist
                ELSE IF ~declaration_failed(r.class_hash)
                THEN /\ flow' = [flow EXCEPT !.class_hash = r.class_hash,
                                             !.declare_kind = out.kind]
                     /\ pc' = "deploy"
                     /\ DeclareReturns(step, r.class_hash, out.kind)
                     /\ UNCHANGED w
                ELSE /\ flow' = [flow EXCEPT !.declare_kind = out.kind,
                                             !.result = "fail"]
                     /\ pc' = "flow_return"
                     /\ DeclareReturns(step, None, out.kind)
                     /\ UNCHANGED w
    /\ UNCHANGED <<cfg, disk, run, step, deployments, deployed_addresses,
                   verifier_address, persisted, link, confirmed, attempted, readback>>

\* declare_confirmed with the result of the wait ignored
declare_confirmed_any(result) == result \in {"Confirmed", "TimedOut"}

\* deployer.py:132: if not self.tx_waiter.wait_for_confirmation(tx_hash)
declare_confirmed(result) == result = "Confirmed"

\* deployer.py:132-139 and 571-574: declare_contract returns after its wait
declare_after_wait ==
    /\ pc = "wait_done"
    /\ w.ctx = "declare"
    /\ IF declare_confirmed(w.result)
       THEN /\ pc' = "deploy"
            /\ flow' = [flow EXCEPT !.declare_wait = w.result]
            /\ DeclareReturns(step, flow.class_hash, flow.declare_kind)
       ELSE /\ flow' = [flow EXCEPT !.declare_wait = w.result,
                                    !.class_hash = None, !.result = "fail"]
            /\ pc' = "flow_return"
            /\ DeclareReturns(step, None, flow.declare_kind)
    /\ w' = WInit
    /\ UNCHANGED <<chain, cfg, disk, run, step, deployments, deployed_addresses,
                   verifier_address, persisted, ops, link, confirmed, attempted, readback>>

\* ---------------------------------------------------------------- deploy
\* what `sncast deploy` can print; the chain numbers its deployments
DeployOutputs(c) ==
    { [success |-> FALSE, contract_address |-> None, tx_hash |-> None],
      [success |-> TRUE, contract_address |-> None, tx_hash |-> None],
      [success |-> TRUE, contract_address |-> DeployedAddr(run.n, c),
       tx_hash |-> DeployTx(c)],
      [success |-> TRUE, contract_address |-> DeployedAddr(run.n, c),
       tx_hash |-> None] }

\* deployer.py:188-212: the address is kept only if the command succeeded and
\* printed one; a wait follows iff a transaction hash was printed too
deploy_parse(out) ==
    IF ~out.success \/ out.contract_address = None
    THEN [contract_address |-> None, tx |-> None]
    ELSE [contract_address |-> out.contract_address, tx |-> out.tx_hash]

\* deployer.py:158-212 up to the wait
deploy_contract ==
    /\ pc = "deploy"
    /\ IF ~validate_dependencies(step, flow.kwargs)
       THEN FlowFails /\ UNCHANGED <<ops, chain, w>>
       ELSE LET calldata == get_constructor_calldata(step, flow.owner_address,
                                                     flow.kwargs)
            IN /\ ops' = Append(ops, Op("deploy", step, None, "", calldata,
                                        flow.class_hash))
               /\ \E out \in DeployOutputs(step) :
                     LET r == deploy_parse(out)
                     IN /\ chain' = chain
                        /\ IF r.contract_address = None
                           THEN /\ flow' = [flow EXCEPT !.calldata = calldata,
                                                        !.result = "fail"]
                                /\ pc' = "flow_return"
                                /\ UNCHANGED w
                           ELSE IF r.tx # None
                           THEN /\ flow' = [flow EXCEPT
                                       !.calldata = calldata,
                                       !.contract_address = r.contract_address,
                                       !.deployment_tx_hash = r.tx]
                                /\ StartWait("deploy", r.tx)
                           ELSE /\ flow' = [flow EXCEPT
                                       !.calldata = calldata,
                                       !.contract_address = r.contract_address,
                                       !.returned_address = r.contract_address]
                                /\ pc' = "save"
                                /\ UNCHANGED w
    /\ UNCHANGED <<cfg, disk, run, step, deployments, deployed_addresses,
                   verifier_address, persisted, link, declare_hist, confirmed, attempted, readback>>

\* deploy_confirmed with the result of the wait ignored
deploy_confirmed_any(result) == result \in {"Confirmed", "TimedOut"}

\* deployer.py:205: if not self.tx_waiter.wait_for_confirmation(...)
deploy_confirmed(result) == result = "Confirmed"

\* deployer.py:205-220 and 578-582: deploy_contract returns after its wait
deploy_after_wait ==
    /\ pc = "wait_done"
    /\ w.ctx = "deploy"
    /\ IF deploy_confirmed(w.result)
       THEN /\ flow' = [flow EXCEPT !.deploy_wait = w.result,
                                    !.returned_address = flow.contract_address]
            /\ pc' = "save"
       ELSE /\ flow' = [flow EXCEPT !.deploy_wait = w.result,
                                    !.result = "fail"]
            /\ pc' = "flow_return"
    /\ w' = WInit
    /\ UNCHANGED <<chain, cfg, disk, run, step, deployments, deployed_addresses,
                   verifier_address, persisted, ops, link, declare_hist, confirmed, attempted, readback>>

\* deployer.py:588-602: deployment_details
deployment_details ==
    [contract_type |-> step,
     contract_address |-> flow.returned_address,
     class_hash |-> flow.class_hash,
     owner |-> flow.owner_address,
     deployment_tx_hash |-> flow.deployment_tx_hash,
     deps |-> ProbedDeps(flow.kwargs),
     post_deployment_ops |-> << >>]

\* the network of the environment
Network == "sepolia"

\* deployer.py:527: what int(time.time()) can give when the last reading gave
\* second `last`: the same second or a later one, up to the last second the
\* scenario explores
ClockReads(last) == {t \in last..(last + 1) : t <= cfg.clock}

\* deployer.py:527: the name of the record file,
\* deployment_<network>_<contract_type>_<int(time.time())>.json
filename(network, contract_type, t) ==
    <<"deployment", network, contract_type, t>>

\* deployer.py:498-533 and 582-607: the record is written (open(filepath, 'w')
\* creates the file or replaces the one of that name), the flow returns
save_deployment_info ==
    /\ pc = "save"
    /\ persisted' = Append(persisted,
                           [contract_type |-> step,
                            class_hash |-> flow.class_hash,
                            contract_address |-> flow.returned_address,
                            owner_address |-> flow.owner_address,
                            deps |-> ProbedDeps(flow.kwargs)])
    /\ \E t \in ClockReads(disk.now) :
          disk' = [now |-> t,
                   files |-> disk.files \cup {filename(Network, step, t)}]
    /\ flow' = [flow EXCEPT !.result = "ok"]
    /\ pc' = "flow_return"
    /\ UNCHANGED <<chain, cfg, run, step, deployments, deployed_addresses,
                   verifier_address, ops, w, link, declare_hist, confirmed, attempted, readback>>

\* --------------------------------- deploy.py: deploy_all_contracts, steps
RoleOf(c) ==
    CASE c = "nft" -> "nft"
      [] c = "kliver_tokens_core" -> "token"
      [] c = "registry" -> "registry"
      [] c = "klive_pox" -> "pox"
      [] OTHER -> c

\* next_step with the Registry set on TokenSimulation right after step 3
next_step_early(c) ==
    CASE c = "nft" -> [step |-> "kliver_tokens_core", pc |-> "step_begin"]
      [] c = "kliver_tokens_core" -> [step |-> "registry", pc |-> "step_begin"]
      [] c = "registry" -> [step |-> "registry", pc |-> "set_registry"]
      [] c = "klive_pox" -> [step |-> "klive_pox", pc |-> "set_pox"]
      [] c = "session_marketplace" ->
             [step |-> "sessions_marketplace", pc |-> "step_begin"]
      [] c = "sessions_marketplace" ->
             [step |-> "sessions_marketplace", pc |-> "verify_sm"]

\* next_step with the NFT step entered again after the NFT was recorded
next_step_again(c) ==
    CASE c = "nft" -> [step |-> "nft", pc |-> "step_begin"]
      [] c = "kliver_tokens_core" -> [step |-> "registry", pc |-> "step_begin"]
      [] c = "registry" -> [step |-> "klive_pox", pc |-> "step_begin"]
      [] c = "klive_pox" -> [step |-> "klive_pox", pc |-> "set_pox"]
      [] c = "session_marketplace" ->
             [step |-> "sessions_marketplace", pc |-> "step_begin"]
      [] c = "sessions_marketplace" ->
             [step |-> "sessions_marketplace", pc |-> "verify_sm"]

\* deploy.py:229, 245, 270, 278, 377, 398: what deploy_all_contracts does after
\* it has recorded the deployment of c
next_step(c) ==
    CASE c = "nft" -> [step |-> "kliver_tokens_core", pc |-> "step_begin"]
      [] c = "kliver_tokens_core" -> [step |-> "registry", pc |-> "step_begin"]
      [] c = "registry" -> [step |-> "klive_pox", pc |-> "step_begin"]
      [] c = "klive_pox" -> [step |-> "klive_pox", pc |-> "set_pox"]
      [] c = "session_marketplace" ->
             [step |-> "sessions_marketplace", pc |-> "step_begin"]
      [] c = "sessions_marketplace" ->
             [step |-> "sessions_marketplace", pc |-> "verify_sm"]

\* deploy.py:221-224, 237-240, 262-265, 274-277, 370-373, 394-397
record_deployment ==
    /\ pc = "flow_return"
    /\ cfg.contract = "all"
    /\ flow.result = "ok"
    /\ deployments' = Append(deployments, deployment_details)
    /\ deployed_addresses' =
           [deployed_addresses EXCEPT ![RoleOf(step)] = flow.returned_address]
    /\ step' = next_step(step).step
    /\ pc' = next_step(step).pc
    /\ UNCHANGED <<chain, cfg, disk, run, flow, verifier_address, persisted, ops, w,
                   link, declare_hist, confirmed, attempted, readback>>

\* aborts_run with a failed Registry deployment skipped like a marketplace
aborts_run_lenient(c) == c \in CoreTypes \ {"registry"}

\* deploy.py:225-227, 241-243, 266-268, 334-336: the steps whose failure makes
\* deploy_all_contracts return False
aborts_run(c) == c \in CoreTypes

\* deploy.py:225-227, 241-243, 266-268, 334-336 (abort) and 374-375,
\* 430-433 (an optional marketplace is skipped)
abort_or_skip ==
    /\ pc = "flow_return"
    /\ cfg.contract = "all"
    /\ flow.result = "fail"
    /\ IF aborts_run(step)
       THEN /\ run' = [run EXCEPT !.success = "False"]
            /\ pc' = "exit"
            /\ step' = step
       ELSE IF step = "session_marketplace"
       THEN /\ step' = "sessions_marketplace"
            /\ pc' = "step_begin"
            /\ run' = run
       ELSE /\ run' = [run EXCEPT !.success = "True"]
            /\ pc' = "exit"
            /\ step' = step
    /\ UNCHANGED <<chain, cfg, disk, flow, deployments, deployed_addresses,
                   verifier_address, persisted, ops, w, link, declare_hist, confirmed, attempted, readback>>

\* ------------------------------------------- post-deployment configuration
\* what a read-back `sncast call` of a getter set to `expected` can give:
\* the command fails, prints no address, or prints an address text
CallOutputs(expected) ==
    { [success |-> FALSE, stdout |-> None], [success |-> TRUE, stdout |-> None] }
    \cup { [success |-> TRUE, stdout |-> t] : t \in ReadBacks(expected) }

\* StarknetUtils.parse_contract_address_from_call: the address text of a call
\* output, None standing for the ValueError raised when there is none
parse_contract_address_from_call(stdout) == stdout

\* addresses_match without the lstrip('0') of the two sides
addresses_match_padded(expected, returned) ==
    replace0x(lower(expected)) = replace0x(lower(returned))

\* deploy.py:324-326, deployer.py:755-757
addresses_match(expected, returned) ==
    strip_compare_form(expected) = strip_compare_form(returned)

\* normalized_match without the lower() of the two sides
normalized_match_cased(expected, returned) ==
    normalize_address(returned) = normalize_address(expected)

\* deployer.py:329-343: normalized_returned == normalized_expected
normalized_match(expected, returned) ==
    normalize_address(lower(returned)) = normalize_address(lower(expected))

\* the locals of a comparison made by one of the two ways the code has
Compared(by, expected, returned) ==
    [made |-> TRUE, by |-> by, expected |-> expected, returned |-> returned,
     verdict |-> IF (IF by = "normalize_address"
                     THEN normalized_match(expected, returned)
                     ELSE addresses_match(expected, returned))
                 THEN "match" ELSE "mismatch"]

\* the comparison a read-back makes, none when no address was printed
ReadbackOf(by, expected, out) ==
    IF out.success /\ out.stdout # None
    THEN Compared(by, expected, out.stdout) ELSE NoReadback

\* deploy.py:318-333, 414-429: the verdict printed for a read-back
readback_verdict(expected, out) ==
    IF ~out.success THEN "unverified"
    ELSE IF parse_contract_address_from_call(out.stdout) = None THEN "unparsed"
    ELSE IF addresses_match(expected,
                            parse_contract_address_from_call(out.stdout))
    THEN "verified" ELSE "mismatch"

\* deploy.py:278-300: invoke set_klive_pox_address on the Registry
set_klive_pox ==
    /\ pc = "set_pox"
    /\ ops' = Append(ops, Op("invoke", "registry", deployed_addresses["registry"],
                             "set_klive_pox_address",
                             <<deployed_addresses["pox"]>>, None))
    /\ \E success \in BOOLEAN :
          /\ link' = [link EXCEPT !.set_pox = IF success THEN "ok" ELSE "failed"]
          /\ pc' = IF success THEN "verify_pox" ELSE "set_registry"
    /\ UNCHANGED <<chain, cfg, disk, run, step, flow, deployments, deployed_addresses,
                   verifier_address, persisted, w, declare_hist, confirmed, attempted, readback>>

\* deploy.py:301-333: read get_klive_pox_address back
verify_klive_pox ==
    /\ pc = "verify_pox"
    /\ ops' = Append(ops, Op("call", "registry", deployed_addresses["registry"],
                             "get_klive_pox_address", << >>, None))
    /\ \E out \in CallOutputs(deployed_addresses["pox"]) :
          /\ link' = [link EXCEPT
                     !.pox_verify = readback_verdict(deployed_addresses["pox"], out)]
          /\ readback' = ReadbackOf("strip", deployed_addresses["pox"], out)
    /\ pc' = "set_registry"
    /\ UNCHANGED <<chain, cfg, disk, run, step, flow, deployments, deployed_addresses,
                   verifier_address, persisted, w, declare_hist, confirmed, attempted>>

\* deployer.py:229-265: invoke set_registry_address on TokenSimulation
set_registry_on_tokencore ==
    /\ pc = "set_registry"
    /\ readback' = NoReadback
    /\ ops' = Append(ops, Op("invoke", "kliver_tokens_core",
                             deployed_addresses["token"], "set_registry_address",
                             <<deployed_addresses["registry"]>>, None))
    /\ \E out \in { [success |-> FALSE, tx_hash |-> None],
                    [success |-> TRUE, tx_hash |-> None],
                    [success |-> TRUE,
                     tx_hash |-> InvokeTx("set_registry_address")] } :
          IF out.success /\ out.tx_hash # None
          THEN /\ link' = [link EXCEPT !.set_registry_tx = out.tx_hash]
               /\ StartWait("set_registry", out.tx_hash)
          ELSE /\ link' = [link EXCEPT !.set_registry_result = "None"]
               /\ pc' = "set_registry_return"
               /\ UNCHANGED w
    /\ UNCHANGED <<chain, cfg, disk, run, step, flow, deployments, deployed_addresses,
                   verifier_address, persisted, declare_hist, confirmed, attempted>>

\* setter_confirmed with the result of the wait ignored
setter_confirmed_any(result) == result \in {"Confirmed", "TimedOut"}

\* deployer.py:268: if not self.tx_waiter.wait_for_confirmation(tx_hash)
setter_confirmed(result) == result = "Confirmed"

\* deployer.py:267-272
set_registry_after_wait ==
    /\ pc = "wait_done"
    /\ w.ctx = "set_registry"
    /\ IF setter_confirmed(w.result)
       THEN pc' = "validate_registry" /\ UNCHANGED link
       ELSE /\ link' = [link EXCEPT !.set_registry_result = "None"]
            /\ pc' = "set_registry_return"
    /\ w' = WInit
    /\ UNCHANGED <<chain, cfg, disk, run, step, flow, deployments, deployed_addresses,
                   verifier_address, persisted, ops, declare_hist, confirmed, attempted, readback>>

\* registry_address_validated with a differing address let through
registry_address_validated_lenient(expected_registry_address, out) ==
    out.success /\ out.stdout # None

\* deployer.py:313-352: the comparison of validate_registry_address_set
registry_address_validated(expected_registry_address, out) ==
    /\ out.success
    /\ out.stdout # None
    /\ normalized_match(expected_registry_address, out.stdout)

\* deployer.py:274-285 and 292-356: read get_registry_address back
validate_registry_address_set ==
    /\ pc = "validate_registry"
    /\ ops' = Append(ops, Op("call", "kliver_tokens_core",
                             deployed_addresses["token"], "get_registry_address",
                             << >>, None))
    /\ \E out \in CallOutputs(deployed_addresses["registry"]) :
          /\ link' = [link EXCEPT
                     !.set_registry_result =
                         IF registry_address_validated(
                                deployed_addresses["registry"], out)
                         THEN "ok" ELSE "None"]
          /\ readback' = ReadbackOf("normalize_address",
                                    deployed_addresses["registry"], out)
    /\ pc' = "set_registry_return"
    /\ UNCHANGED <<chain, cfg, disk, run, step, flow, deployments, deployed_addresses,
                   verifier_address, persisted, w, declare_hist, confirmed, attempted>>

\* deployer.py:279-285
set_registry_op ==
    [method |-> "set_registry_address", tx_hash |-> link.set_registry_tx,
     calldata |-> <<deployed_addresses["registry"]>>,
     validation |-> "validated"]

\* add_post_deployment_op with an updated copy of the TokenSimulation record
\* put at the end of the list
add_post_deployment_op_as_copy(records, op) ==
    Append(records,
           [records[2] EXCEPT !.post_deployment_ops = Append(@, op)])

\* deploy.py:349-353: token_result, the second record of the list, gets the
\* operation appended to its post_deployment_ops
add_post_deployment_op(records, op) ==
    [records EXCEPT ![2].post_deployment_ops = Append(@, op)]

\* deploy.py:349-356 and 434-436
configure_token_result ==
    /\ pc = "set_registry_return"
    /\ readback' = NoReadback
    /\ IF link.set_registry_result = "ok"
       THEN /\ deployments' = add_post_deployment_op(deployments, set_registry_op)
            /\ step' = "session_marketplace"
            /\ pc' = "step_begin"
            /\ run' = run
       ELSE /\ run' = [run EXCEPT !.success = "False"]
            /\ pc' = "exit"
            /\ UNCHANGED <<deployments, step>>
    /\ UNCHANGED <<chain, cfg, disk, flow, deployed_addresses, verifier_address,
                   persisted, ops, w, link, declare_hist, confirmed, attempted>>

\* deploy.py:398-433: read get_pox_address of the marketplace back, return True
verify_sessions_marketplace ==
    /\ pc = "verify_sm"
    /\ ops' = Append(ops, Op("call", "sessions_marketplace",
                             deployed_addresses["sessions_marketplace"],
                             "get_pox_address", << >>, None))
    /\ \E out \in CallOutputs(deployed_addresses["pox"]) :
          /\ link' = [link EXCEPT
                     !.sm_verify = readback_verdict(deployed_addresses["pox"], out)]
          /\ readback' = ReadbackOf("strip", deployed_addresses["pox"], out)
    /\ run' = [run EXCEPT !.success = "True"]
    /\ pc' = "exit"
    /\ UNCHANGED <<chain, cfg, disk, step, flow, deployments, deployed_addresses,
                   verifier_address, persisted, w, declare_hist, confirmed, attempted>>

\* keyboard_interrupt with the interrupt caught inside the polling loop, which
\* goes on
keyboard_interrupt_in_loop(at) == [pc |-> at, success |-> run.success]

\* deploy.py:129-131: no handler lies between the polling loop and deploy, whose
\* `except KeyboardInterrupt` ends the run
keyboard_interrupt(at) == [pc |-> "exit", success |-> "Interrupted"]

\* utils.py:173-185 and deploy.py:129-131: the operator interrupts the status
\* command or the sleep of a wait; the exception unwinds the waiter, the
\* deployer and the orchestrator
interrupt ==
    /\ pc \in {"wait_query", "wait_sleep"}
    /\ pc' = keyboard_interrupt(pc).pc
    /\ run' = [run EXCEPT !.success = keyboard_interrupt(pc).success]
    /\ IF keyboard_interrupt(pc).pc = "exit"
       THEN w' = WInit /\ flow' = FlowInit
       ELSE UNCHANGED <<w, flow>>
    /\ UNCHANGED <<chain, cfg, disk, step, deployments, deployed_addresses,
                   verifier_address, persisted, ops, link, declare_hist,
                   confirmed, attempted, readback>>

\* deploy.py:114-127
exit_code_of(success, records) ==
    IF success = "True" /\ records # << >> THEN 0 ELSE 1

exit ==
    /\ pc = "exit"
    /\ readback' = NoReadback
    /\ run' = [run EXCEPT !.exit_code = exit_code_of(run.success, deployments)]
    /\ pc' = "idle"
    /\ UNCHANGED <<chain, cfg, disk, step, flow, deployments, deployed_addresses,
                   verifier_address, persisted, ops, w, link, declare_hist, confirmed, attempted>>

Next ==
    \/ deploy
    \/ begin_step
    \/ check_prerequisites
    \/ get_account_info
    \/ validate_contract
    \/ compile_contract
    \/ declare_contract
    \/ declare_after_wait
    \/ deploy_contract
    \/ deploy_after_wait
    \/ save_deployment_info
    \/ record_deployment
    \/ abort_or_skip
    \/ wait_for_confirmation
    \/ wait_sleep
    \/ set_klive_pox
    \/ verify_klive_pox
    \/ set_registry_on_tokencore
    \/ set_registry_after_wait
    \/ validate_registry_address_set
    \/ configure_token_result
    \/ verify_sessions_marketplace
    \/ interrupt
    \/ exit

Spec == Init /\ [][Next]_vars

\* -------------------------------------- deploy.py: deploy (single contract)
\* the address of a contract an earlier run deployed, given on the command line
SuppliedAddr(c) == DeployedAddr(0, c)

SingleClis ==
    { NoCli,
      [nft_address |-> SuppliedAddr("nft"),
       token_simulation_address |-> None, registry_address |-> None],
      [nft_address |-> SuppliedAddr("nft"),
       token_simulation_address |-> SuppliedAddr("kliver_tokens_core"),
       registry_address |-> SuppliedAddr("registry")] }

SingleBases ==
    { [opt |-> {}, no_compile |-> TRUE, owner |-> None,
       verifier_cli |-> None, verifier_cfg |-> VerifierAddr,
       payment_token |-> PaymentTokenAddr, timeout |-> TimeoutStr,
       deployment_settings |-> << >>],
      [opt |-> {}, no_compile |-> FALSE, owner |-> OwnerAddr,
       verifier_cli |-> VerifierAddr, verifier_cfg |-> None,
       payment_token |-> None, timeout |-> TimeoutStr,
       deployment_settings |-> <<kw("max_retries", 2), kw("retry_interval", 5)>>] }

\* one contract type is deployed by each run; two of the configuration files
\* have a defect
SingleScenarios ==
    { [base |-> b, runs |-> MaxSingleRuns, clock |-> MaxClock, contract |-> c, cli |-> cli,
       environment_ok |-> TRUE, missing |-> {}] :
         b \in SingleBases, c \in CONTRACTS, cli \in SingleClis }
    \cup
    { [base |-> b, runs |-> 1, clock |-> 0, contract |-> "nft", cli |-> NoCli,
       environment_ok |-> FALSE, missing |-> {}] : b \in SingleBases }
    \cup
    { [base |-> b, runs |-> 1, clock |-> 0, contract |-> "nft", cli |-> NoCli,
       environment_ok |-> TRUE, missing |-> {"nft"}] : b \in SingleBases }

SingleInit ==
    /\ chain = [declared |-> {}]
    /\ disk = DiskInit
    /\ cfg \in SingleScenarios
    /\ run = [n |-> 0, success |-> "none", exit_code |-> -1]
    /\ pc = "idle"
    /\ declare_hist = [c \in CONTRACTS |-> << >>]
    /\ RunLocalInit

\* deploy.py:451-502: the keyword arguments deploy_single_contract prepares
\* for deploy_full_flow, or its refusal (return False)
deploy_kwargs(contract) ==
    CASE contract \in {"nft", "kliver_tokens_core"} ->
            [ok |-> TRUE, kwargs |-> <<kw("base_uri", BaseUri)>>]
      [] contract = "registry" ->
            IF cfg.cli.nft_address = None
               \/ cfg.cli.token_simulation_address = None
            THEN [ok |-> FALSE, kwargs |-> << >>]
            ELSE [ok |-> TRUE,
                  kwargs |->
                    <<kw("nft_address", cfg.cli.nft_address),
                      kw("token_simulation_address",
                         cfg.cli.token_simulation_address),
                      kw("verifier_address",
                         IF cfg.base.verifier_cli # None
                         THEN cfg.base.verifier_cli
                         ELSE IF cfg.base.verifier_cfg # None
                         THEN cfg.base.verifier_cfg ELSE ZeroAddr)>>]
      [] contract = "session_marketplace" ->
            IF cfg.cli.registry_address = None
            THEN [ok |-> FALSE, kwargs |-> << >>]
            ELSE [ok |-> TRUE,
                  kwargs |-> <<kw("registry_address",
                                  cfg.cli.registry_address)>>]
      [] contract = "sessions_marketplace" ->
            LET verifier == IF cfg.base.verifier_cli # None
                            THEN cfg.base.verifier_cli
                            ELSE cfg.base.verifier_cfg
            IN [ok |-> /\ cfg.base.payment_token # None
                       /\ cfg.base.timeout # None
                       /\ verifier # None
                       /\ cfg.cli.registry_address # None,
                kwargs |-> << >>]
      [] OTHER -> [ok |-> TRUE, kwargs |-> << >>]

\* deploy.py:78-96, 106-112 and 439-505: a single-contract run starts. The
\* environment and the contract type are checked against the configuration
\* file, the keyword arguments are prepared, deploy_full_flow is called
deploy_single_contract ==
    /\ pc = "idle"
    /\ cfg.contract # "all"
    /\ run.n < cfg.runs
    /\ LET contract == cfg.contract
           prepared == deploy_kwargs(contract)
       IN IF ~cfg.environment_ok \/ ~has_contract_config(contract)
          THEN /\ run' = [n |-> run.n + 1, success |-> "Error",
                          exit_code |-> -1]
               /\ pc' = "exit"
               /\ step' = "none"
               /\ flow' = FlowInit
               /\ attempted' = {}
          ELSE IF ~prepared.ok
          THEN /\ run' = [n |-> run.n + 1, success |-> "False",
                          exit_code |-> -1]
               /\ pc' = "exit"
               /\ step' = contract
               /\ flow' = FlowInit
               /\ attempted' = {}
          ELSE /\ run' = [n |-> run.n + 1, success |-> "none",
                          exit_code |-> -1]
               /\ pc' = "check_prerequisites"
               /\ step' = contract
               /\ flow' = [FlowInit EXCEPT !.contract = contract,
                                           !.kwargs = prepared.kwargs]
               /\ attempted' = {contract}
    /\ deployments' = << >>
    /\ deployed_addresses' = [r \in Roles |-> None]
    /\ verifier_address' = cfg.base.verifier_cli
    /\ persisted' = << >>
    /\ ops' = << >>
    /\ w' = WInit
    /\ link' = LinkInit
    /\ confirmed' = {}
    /\ UNCHANGED <<chain, cfg, disk, declare_hist, readback>>

\* deploy.py:505-511: the result of deploy_full_flow is recorded, or the mode
\* fails
single_result ==
    /\ pc = "flow_return"
    /\ cfg.contract # "all"
    /\ IF flow.result = "ok"
       THEN /\ deployments' = Append(deployments, deployment_details)
            /\ run' = [run EXCEPT !.success = "True"]
       ELSE /\ deployments' = deployments
            /\ run' = [run EXCEPT !.success = "False"]
    /\ pc' = "exit"
    /\ UNCHANGED <<chain, cfg, disk, step, flow, deployed_addresses,
                   verifier_address, persisted, ops, w, link, declare_hist,
                   confirmed, attempted, readback>>

SingleNext ==
    \/ deploy_single_contract
    \/ check_prerequisites
    \/ get_account_info
    \/ validate_contract
    \/ compile_contract
    \/ declare_contract
    \/ declare_after_wait
    \/ deploy_contract
    \/ deploy_after_wait
    \/ save_deployment_info
    \/ single_result
    \/ wait_for_confirmation
    \/ wait_sleep
    \/ interrupt
    \/ exit

SingleSpec == SingleInit /\ [][SingleNext]_vars

\* ------------------------------------------- the address comparison alone
HexChars == {"0", "1", "a", "A"}

RECURSIVE HexStrings(_)
HexStrings(n) ==
    IF n = 0 THEN {<< >>}
    ELSE {<<c>> \o t : c \in HexChars, t \in HexStrings(n - 1)}

\* 0x-prefixed hex address texts of 1..MaxHexDigits digits
HexAddresses ==
    {<<"0", "x">> \o t : t \in UNION {HexStrings(n) : n \in 1..MaxHexDigits}}

\* an expected address and a read-back address are about to be compared
CompareInit ==
    /\ chain = [declared |-> {}]
    /\ disk = DiskInit
    /\ cfg \in {sc \in AllScenarios : sc.base.opt = {}}
    /\ run = [n |-> 0, success |-> "none", exit_code |-> -1]
    /\ pc = "compare"
    /\ declare_hist = [c \in CONTRACTS |-> << >>]
    /\ step = "none"
    /\ flow = FlowInit
    /\ deployments = << >>
    /\ deployed_addresses = [r \in Roles |-> None]
    /\ verifier_address = None
    /\ persisted = << >>
    /\ ops = << >>
    /\ w = WInit
    /\ link = LinkInit
    /\ confirmed = {}
    /\ attempted = {}
    /\ \E by \in {"normalize_address", "strip"} :
       \E expected \in HexAddresses, returned \in HexAddresses :
          readback = [NoReadback EXCEPT !.by = by, !.expected = expected,
                                        !.returned = returned]

\* deployer.py:329-343 and 753-757: the comparison of the two addresses
compare_addresses ==
    /\ pc = "compare"
    /\ readback' = Compared(readback.by, readback.expected, readback.returned)
    /\ pc' = "compared"
    /\ UNCHANGED <<chain, cfg, disk, run, step, flow, deployments, deployed_addresses,
                   verifier_address, persisted, ops, w, link, declare_hist,
                   confirmed, attempted>>

CompareNext == compare_addresses

CompareSpec == CompareInit /\ [][CompareNext]_vars

\* ------------------------------- the two comparisons on the same addresses
\* address texts as an operator can type them, with and without the 0x prefix
AddressTexts ==
    HexAddresses \cup UNION {HexStrings(n) : n \in 1..MaxHexDigits}

\* an expected address as the caller passed it and a read-back address as the
\* pattern 0x[a-fA-F0-9]+ found it are about to be compared in both ways
BothInit ==
    /\ chain = [declared |-> {}]
    /\ disk = DiskInit
    /\ cfg \in {sc \in AllScenarios : sc.base.opt = {}}
    /\ run = [n |-> 0, success |-> "none", exit_code |-> -1]
    /\ pc = "compare_both"
    /\ declare_hist = [c \in CONTRACTS |-> << >>]
    /\ step = "none"
    /\ flow = FlowInit
    /\ deployments = << >>
    /\ deployed_addresses = [r \in Roles |-> None]
    /\ verifier_address = None
    /\ persisted = << >>
    /\ ops = << >>
    /\ w = WInit
    /\ link = LinkInit
    /\ confirmed = {}
    /\ attempted = {}
    /\ \E expected \in AddressTexts, returned \in HexAddresses :
          readback = [NoReadback EXCEPT !.by = "both", !.expected = expected,
                                        !.returned = returned]

\* deployer.py:329-343 and deployer.py:755-757 on the same two texts
compare_both ==
    /\ pc = "compare_both"
    /\ readback' =
          [readback EXCEPT
             !.made = TRUE,
             !.verdict =
                [normalize_address |->
                    Compared("normalize_address", readback.expected,
                             readback.returned).verdict,
                 strip |-> Compared("strip", readback.expected,
                                    readback.returned).verdict]]
    /\ pc' = "compared_both"
    /\ UNCHANGED <<chain, cfg, disk, run, step, flow, deployments,
                   deployed_addresses, verifier_address, persisted, ops, w,
                   link, declare_hist, confirmed, attempted>>

BothNext == compare_both

BothSpec == BothInit /\ [][BothNext]_vars

\* --------------------------------------- the calldata of a constructor alone
\* the keyword arguments a caller of deploy_full_flow can name for contract c
KeywordsOf(c) ==
    CASE c \in {"nft", "kliver_tokens_core"} -> {kw("base_uri", BaseUri)}
      [] c = "registry" ->
            {kw("nft_address", SuppliedAddr("nft")),
             kw("token_simulation_address", SuppliedAddr("kliver_tokens_core")),
             kw("verifier_address", VerifierAddr)}
      [] c \in {"klive_pox", "session_marketplace"} ->
            {kw("registry_address", SuppliedAddr("registry"))}
      [] c = "sessions_marketplace" ->
            {kw("pox_address", SuppliedAddr("klive_pox")),
             kw("verifier_address", VerifierAddr),
             kw("payment_token_address", PaymentTokenAddr),
             kw("purchase_timeout_seconds", TimeoutStr)}

\* the orders in which the keyword arguments S can be supplied
Orderings(S) ==
    {f \in [1..Cardinality(S) -> S] :
        \A i, j \in 1..Cardinality(S) : i # j => f[i] # f[j]}

CalldataInit ==
    /\ chain = [declared |-> {}]
    /\ disk = DiskInit
    /\ cfg \in {sc \in AllScenarios : sc.base.opt = {}}
    /\ run = [n |-> 0, success |-> "none", exit_code |-> -1]
    /\ pc = "assemble"
    /\ declare_hist = [c \in CONTRACTS |-> << >>]
    /\ deployments = << >>
    /\ deployed_addresses = [r \in Roles |-> None]
    /\ verifier_address = None
    /\ persisted = << >>
    /\ ops = << >>
    /\ w = WInit
    /\ link = LinkInit
    /\ confirmed = {}
    /\ attempted = {}
    /\ readback = NoReadback
    /\ \E c \in CONTRACTS, owner_address \in {AccountAddr, OwnerAddr} :
       \E S \in SUBSET KeywordsOf(c) :
       \E kwargs \in Orderings(S) :
          \* deploy.py:218, 234, 454, 480: the base URI is always passed
          /\ c \in {"nft", "kliver_tokens_core"} => S = KeywordsOf(c)
          /\ step = c
          /\ flow = [FlowInit EXCEPT !.contract = c, !.kwargs = kwargs,
                                     !.owner_address = owner_address]

\* deployer.py:162-167: deploy_contract checks the dependencies and assembles
\* the constructor calldata
assemble_calldata ==
    /\ pc = "assemble"
    /\ pc' = "assembled"
    /\ IF ~validate_dependencies(step, flow.kwargs)
       THEN flow' = [flow EXCEPT !.result = "fail"]
       ELSE flow' = [flow EXCEPT !.calldata =
                        get_constructor_calldata(step, flow.owner_address,
                                                 flow.kwargs)]
    /\ UNCHANGED <<chain, cfg, disk, run, step, deployments, deployed_addresses,
                   verifier_address, persisted, ops, w, link, declare_hist,
                   confirmed, attempted, readback>>

CalldataNext == assemble_calldata

CalldataSpec == CalldataInit /\ [][CalldataNext]_vars

\* ----------------------------------------- deployer.py: generic setters
\* the seconds a purchase timeout is set to
MaxTimeout == 17

HexDigitChars ==
    <<"0", "1", "2", "3", "4", "5", "6", "7", "8", "9", "a", "b", "c", "d",
      "e", "f">>

\* the text the chain's command line prints for a number: 0x and its
\* hexadecimal digits
RECURSIVE hex_digits(_)
hex_digits(n) ==
    IF n < 16 THEN <<HexDigitChars[n + 1]>>
    ELSE hex_digits(n \div 16) \o <<HexDigitChars[(n % 16) + 1]>>

felt_text(n) == <<"0", "x">> \o hex_digits(n)

\* deployer.py:726-941: the six setters, the getter each reads back, the
\* contract each is invoked on and how each compares the read-back
GenericSetters ==
    { [name |-> "set_registry_address", method |-> "set_registry_address",
       getter |-> "get_registry_address", on |-> "kliver_tokens_core",
       compare |-> "strip"],
      [name |-> "set_kliver_pox_address", method |-> "set_kliver_pox_address",
       getter |-> "get_kliver_pox_address", on |-> "registry",
       compare |-> "strip"],
      [name |-> "set_verifier_address", method |-> "set_verifier_address",
       getter |-> "get_verifier_address", on |-> "registry",
       compare |-> "strip"],
      [name |-> "set_payment_token", method |-> "set_payment_token",
       getter |-> "get_payment_token", on |-> "sessions_marketplace",
       compare |-> "strip"],
      [name |-> "set_pox_address_on_marketplace", method |-> "set_pox_address",
       getter |-> "get_pox_address", on |-> "sessions_marketplace",
       compare |-> "strip"],
      [name |-> "set_purchase_timeout", method |-> "set_purchase_timeout",
       getter |-> "get_purchase_timeout", on |-> "sessions_marketplace",
       compare |-> "str"] }

\* the values the operator passes: an address in two spellings, or a number of
\* seconds
SetterValues(setter) ==
    IF setter.compare = "str"
    THEN {[seconds |-> n, text |-> str(n)] : n \in {MaxTimeout - 10, MaxTimeout}}
    ELSE {[seconds |-> 0, text |-> a] : a \in {VerifierAddr, SuppliedAddr("registry")}}

SetterCallInit ==
    [setter |-> "none", method |-> "none", getter |-> "none",
     compare |-> "none", contract_address |-> None, seconds |-> 0,
     value |-> None, invoke |-> "none", wait |-> "none", called |-> FALSE,
     call_success |-> FALSE, actual |-> None, result |-> None]

\* one configuration command: one setter is called on a deployed contract
SetterInit ==
    /\ chain = [declared |-> {}]
    /\ disk = DiskInit
    /\ cfg \in {sc \in AllScenarios : sc.base.opt = {}}
    /\ run = [n |-> 0, success |-> "none", exit_code |-> -1]
    /\ pc = "invoke_setter"
    /\ declare_hist = [c \in CONTRACTS |-> << >>]
    /\ step = "none"
    /\ flow = FlowInit
    /\ deployments = << >>
    /\ deployed_addresses = [r \in Roles |-> None]
    /\ verifier_address = None
    /\ persisted = << >>
    /\ ops = << >>
    /\ w = WInit
    /\ confirmed = {}
    /\ attempted = {}
    /\ readback = NoReadback
    /\ \E setter \in GenericSetters : \E v \in SetterValues(setter) :
          link = [SetterCallInit EXCEPT
                    !.setter = setter.name, !.method = setter.method,
                    !.getter = setter.getter, !.compare = setter.compare,
                    !.contract_address = SuppliedAddr(setter.on),
                    !.seconds = v.seconds, !.value = v.text]

\* what `sncast invoke` can print: a failure, a success without a transaction
\* hash, a success with one
InvokeOutputs(method) ==
    { [success |-> FALSE, tx_hash |-> None],
      [success |-> TRUE, tx_hash |-> None],
      [success |-> TRUE, tx_hash |-> InvokeTx(method)] }

\* deployer.py:666-671: the dictionary invoke_setter_method returns
setter_result(method, tx_hash, calldata, contract_address) ==
    [method |-> method, tx_hash |-> tx_hash, calldata |-> calldata,
     contract_address |-> contract_address, validation |-> None]

\* deployer.py:609-664 and 673-677: the invoke is submitted; a failed command
\* or an output without a transaction hash returns None
invoke_setter_method ==
    /\ pc = "invoke_setter"
    /\ ops' = Append(ops, Op("invoke", "none", link.contract_address,
                             link.method, <<link.value>>, None))
    /\ \E out \in InvokeOutputs(link.method) :
          IF out.success /\ out.tx_hash # None
          THEN /\ link' = [link EXCEPT !.invoke = "ok"]
               /\ StartWait("setter", out.tx_hash)
          ELSE /\ link' = [link EXCEPT
                             !.invoke = IF out.success THEN "no_tx_hash"
                                        ELSE "failed"]
               /\ pc' = "setter_return"
               /\ UNCHANGED w
    /\ UNCHANGED <<chain, cfg, disk, run, step, flow, deployments,
                   deployed_addresses, verifier_address, persisted,
                   declare_hist, confirmed, attempted, readback>>

\* deployer.py:661: if not self.tx_waiter.wait_for_confirmation(tx_hash)
invoke_confirmed(result) == result = "Confirmed"

\* deployer.py:661-671 and the `if result:` of the setter (deployer.py:751)
invoke_setter_after_wait ==
    /\ pc = "wait_done"
    /\ w.ctx = "setter"
    /\ IF invoke_confirmed(w.result)
       THEN /\ link' = [link EXCEPT
                          !.wait = w.result,
                          !.result = setter_result(link.method, w.tx,
                                                   <<link.value>>,
                                                   link.contract_address)]
            /\ pc' = "read_back"
       ELSE /\ link' = [link EXCEPT !.wait = w.result]
            /\ pc' = "setter_return"
    /\ w' = WInit
    /\ UNCHANGED <<chain, cfg, disk, run, step, flow, deployments,
                   deployed_addresses, verifier_address, persisted, ops,
                   declare_hist, confirmed, attempted, readback>>

\* what `sncast call` can print for the getter of a slot set to value: the
\* command fails, or it prints the slot as the chain holds it, an address in
\* one of its spellings or a number in hexadecimal or in decimal
ViewOutputs(compare, value, seconds) ==
    {[success |-> FALSE, stdout |-> None]} \cup
    (IF compare = "str"
     THEN {[success |-> TRUE, stdout |-> t] :
              t \in {felt_text(seconds), str(seconds), str(seconds + 1)}}
     ELSE {[success |-> TRUE, stdout |-> t] : t \in ReadBacks(value)})

\* deployer.py:714-724: None when the command failed, the address parsed from
\* the output, or the raw output when it holds no address
call_view_result(out) ==
    IF ~out.success THEN None
    ELSE IF startswith0x(out.stdout)
    THEN parse_contract_address_from_call(out.stdout)
    ELSE out.stdout

\* deployer.py:755-757 (and the same lines of the four other address setters)
\* and deployer.py:935: actual == str(timeout_seconds)
values_match(compare, expected, actual) ==
    IF compare = "str" THEN actual = expected
    ELSE addresses_match(expected, actual)

\* deployer.py:751-763 and 931-941: the getter is called and "validation" is
\* attached to the result when the value read equals the value set
call_view_method ==
    /\ pc = "read_back"
    /\ ops' = Append(ops, Op("call", "none", link.contract_address,
                             link.getter, << >>, None))
    /\ \E out \in ViewOutputs(link.compare, link.value, link.seconds) :
          LET actual == call_view_result(out)
              validated == /\ actual # None
                           /\ values_match(link.compare, link.value, actual)
          IN /\ link' = [link EXCEPT
                           !.called = TRUE, !.call_success = out.success,
                           !.actual = actual,
                           !.result = IF validated
                                      THEN [@ EXCEPT !.validation = <<"validated">>]
                                      ELSE @]
             /\ readback' = [made |-> TRUE, by |-> link.compare,
                             expected |-> link.value, returned |-> actual,
                             verdict |-> IF validated THEN "verified"
                                         ELSE "none"]
    /\ pc' = "setter_return"
    /\ UNCHANGED <<chain, cfg, disk, run, step, flow, deployments,
                   deployed_addresses, verifier_address, persisted, w,
                   declare_hist, confirmed, attempted>>

SetterNext ==
    \/ invoke_setter_method
    \/ wait_for_confirmation
    \/ wait_sleep
    \/ invoke_setter_after_wait
    \/ call_view_method

SetterSpec == SetterInit /\ [][SetterNext]_vars

\* ------------------------------------- the entry points and the factory
\* contracts.py:115-119, 195-198, 220-222, 243-245: the keys of the factory
\* CONTRACTS once every update has run
FactoryKeys ==
    {"nft", "registry", "kliver_tokens_core", "session_marketplace",
     "sessions_marketplace", "klive_pox", "simple_erc20"}

\* contracts.py:122-128: the instance of the type, or the ValueError raised
\* for a type that is no key
get_contract(contract_type) ==
    IF contract_type \notin FactoryKeys THEN "ValueError" ELSE contract_type

\* the contract types the deployment entry points pass to ContractDeployer:
\* the steps of deploy-all (deploy.py:215-380), the documented values of
\* --contract (deploy.py:17-18, 447) and the options of the interactive menu
\* (deploy_interactive.py:296, 358, 436, 508, 602, 657)
EntryRequests ==
    {[entry |-> "deploy_all", contract_type |-> t] :
        t \in {"nft", "kliver_tokens_core", "registry", "klive_pox",
               "session_marketplace", "sessions_marketplace"}}
    \cup
    {[entry |-> "deploy_single_contract", contract_type |-> t] :
        t \in {"registry", "nft", "kliver_tokens_core", "klive_pox",
               "sessions_marketplace"}}
    \cup
    {[entry |-> "deploy_interactive", contract_type |-> t] :
        t \in {"nft", "kliver_tokens_core", "registry", "kliver_pox",
               "sessions_marketplace", "simple_erc20"}}

\* an entry point is about to create its ContractDeployer; the environment
\* of the configuration file has an entry for the type or has none
EntryInit ==
    /\ chain = [declared |-> {}]
    /\ disk = DiskInit
    /\ run = [n |-> 0, success |-> "none", exit_code |-> -1]
    /\ pc = "construct"
    /\ declare_hist = [c \in CONTRACTS |-> << >>]
    /\ step = "none"
    /\ flow = FlowInit
    /\ deployments = << >>
    /\ deployed_addresses = [r \in Roles |-> None]
    /\ verifier_address = None
    /\ persisted = << >>
    /\ ops = << >>
    /\ w = WInit
    /\ confirmed = {}
    /\ attempted = {}
    /\ readback = NoReadback
    /\ \E req \in EntryRequests, b \in BaseConfigs, ok \in BOOLEAN,
          entry_in_file \in BOOLEAN :
          /\ cfg = [base |-> b, runs |-> 1, clock |-> 0,
                    contract |-> req.contract_type, cli |-> NoCli,
                    environment_ok |-> ok,
                    missing |-> IF entry_in_file THEN {}
                                ELSE {req.contract_type}]
          /\ link = [entry |-> req.entry, contract_type |-> req.contract_type,
                     raised |-> "none", contract |-> "none",
                     deployment_settings |-> << >>]

\* deployer.py:18-40: ContractDeployer.__init__ loads the environment, the
\* contract entry and the deployment settings and asks the factory for the
\* contract; each of the three can raise
ContractDeployer_init ==
    /\ pc = "construct"
    /\ IF ~cfg.environment_ok
       THEN /\ link' = [link EXCEPT !.raised = "get_environment_config"]
            /\ pc' = "raised"
       ELSE IF ~has_contract_config(link.contract_type)
       THEN /\ link' = [link EXCEPT !.raised = "get_contract_config"]
            /\ pc' = "raised"
       ELSE IF get_contract(link.contract_type) = "ValueError"
       THEN /\ link' = [link EXCEPT
                          !.raised = "get_contract",
                          !.deployment_settings =
                               get_deployment_settings(cfg.base)]
            /\ pc' = "raised"
       ELSE /\ link' = [link EXCEPT
                          !.contract = get_contract(link.contract_type),
                          !.deployment_settings =
                               get_deployment_settings(cfg.base)]
            /\ pc' = "constructed"
    /\ UNCHANGED <<chain, cfg, disk, run, step, flow, deployments,
                   deployed_addresses, verifier_address, persisted, ops, w,
                   declare_hist, confirmed, attempted, readback>>

EntryNext == ContractDeployer_init

EntrySpec == EntryInit /\ [][EntryNext]_vars

\* ----------------------------------------- the ByteArray calldata alone
\* the length in code points of the longest text encoded
MaxTextLen == 32

\* the code points of the texts: a, e with acute accent, the euro sign
CodePoints == {97, 233, 8364}

\* the text of n code points that alternates a and b
AlternatingText(n, a, b) == [i \in 1..n |-> IF i % 2 = 1 THEN a ELSE b]

\* a text is about to be converted
ByteArrayInit ==
    /\ chain = [declared |-> {}]
    /\ disk = DiskInit
    /\ cfg \in {sc \in AllScenarios : sc.base.opt = {}}
    /\ run = [n |-> 0, success |-> "none", exit_code |-> -1]
    /\ pc = "encode"
    /\ declare_hist = [c \in CONTRACTS |-> << >>]
    /\ step = "none"
    /\ flow = FlowInit
    /\ deployments = << >>
    /\ deployed_addresses = [r \in Roles |-> None]
    /\ verifier_address = None
    /\ persisted = << >>
    /\ ops = << >>
    /\ w = WInit
    /\ confirmed = {}
    /\ attempted = {}
    /\ readback = NoReadback
    /\ \E n \in 0..MaxTextLen, a \in CodePoints, b \in CodePoints :
          link = [text |-> AlternatingText(n, a, b), result |-> << >>]

\* utils.py:76-109: StarknetUtils.string_to_bytearray_calldata(text)
to_bytearray_calldata ==
    /\ pc = "encode"
    /\ link' = [link EXCEPT !.result = string_to_bytearray_calldata(link.text)]
    /\ pc' = "encoded"
    /\ UNCHANGED <<chain, cfg, disk, run, step, flow, deployments,
                   deployed_addresses, verifier_address, persisted, ops, w,
                   declare_hist, confirmed, attempted, readback>>

ByteArrayNext == to_bytearray_calldata

ByteArraySpec == ByteArrayInit /\ [][ByteArrayNext]_vars

\* ================================================================ claims
DependsOn(c) ==
    CASE c = "registry" -> {"nft", "kliver_tokens_core"}
      [] c = "klive_pox" -> {"registry"}
      [] c = "session_marketplace" -> {"registry"}
      [] c = "sessions_marketplace" -> {"klive_pox"}
      [] OTHER -> {}

\* position of dependency d's address in the constructor calldata of c
DepArgPos(c, d) ==
    CASE c = "registry" /\ d = "nft" -> 2
      [] c = "registry" /\ d = "kliver_tokens_core" -> 3
      [] OTHER -> 1

FixedOrder ==
    <<"nft", "kliver_tokens_core", "registry", "klive_pox", "sessions_marketplace">>

DeployOps(log) == SelectSeq(log, LAMBDA o : o.op = "deploy")

DeployedTypes(log) ==
    [i \in 1..Len(DeployOps(log)) |-> DeployOps(log)[i].contract]

InFixedOrder(types) ==
    LET main == SelectSeq(types, LAMBDA t : t # "session_marketplace")
    IN Len(main) <= Len(FixedOrder) /\ main = SubSeq(FixedOrder, 1, Len(main))

DeploySubmitted ==
    Len(ops') = Len(ops) + 1 /\ ops'[Len(ops')].op = "deploy"

\* dependency d of the deploy operation o is recorded, and o carries its address
DepRecorded(o, d) ==
    \E j \in 1..Len(deployments) :
        /\ deployments[j].contract_type = d
        /\ deployments[j].contract_address # None
        /\ \E k \in 1..Len(persisted) :
              /\ persisted[k].contract_type = d
              /\ persisted[k].contract_address = deployments[j].contract_address
        /\ o.args[DepArgPos(o.contract, d)] = deployments[j].contract_address

DepConfirmed(d) ==
    \E j \in 1..Len(deployments) :
        /\ deployments[j].contract_type = d
        /\ deployments[j].deployment_tx_hash # None
        /\ deployments[j].deployment_tx_hash \in confirmed

DepConfirmedIfTx(d) ==
    \A j \in 1..Len(deployments) :
        (deployments[j].contract_type = d
         /\ deployments[j].deployment_tx_hash # None)
        => deployments[j].deployment_tx_hash \in confirmed

AddressUsed(c) ==
    LET a == DeployedAddr(run.n, c)
    IN \/ step = c /\ flow.returned_address = a
       \/ deployed_addresses[RoleOf(c)] = a
       \/ \E j \in 1..Len(deployments) : deployments[j].contract_address = a
       \/ \E j \in 1..Len(persisted) : persisted[j].contract_address = a
       \/ \E j \in 1..Len(ops) :
             \/ ops[j].target = a
             \/ \E k \in 1..Len(ops[j].args) : ops[j].args[k] = a

\* the deploy output of c carried an address and no transaction hash
NoTxPrinted(c) ==
    \/ /\ flow.contract = c
       /\ flow.contract_address # None
       /\ flow.deployment_tx_hash = None
    \/ \E j \in 1..Len(deployments) :
          /\ deployments[j].contract_type = c
          /\ deployments[j].deployment_tx_hash = None

FlowFailedNow == pc = "flow_return" /\ flow.result = "fail"

RecordedTypes(recs) == {recs[j].contract_type : j \in 1..Len(recs)}

\* no declare or deploy for a contract after the k-th of the plan, no invoke
NothingLater(log, k) ==
    \A j \in 1..Len(log) :
        /\ log[j].op # "invoke"
        /\ log[j].op \in {"declare", "deploy"} => TypeIndex(log[j].contract) <= k

\* once deploy_all_contracts has returned nothing is submitted or recorded
StoppedForGood ==
    pc = "exit" => ops' = ops /\ deployments' = deployments
                   /\ persisted' = persisted

AllStepsSucceeded ==
    /\ attempted \subseteq RecordedTypes(deployments)
    /\ link.set_pox # "failed"
    /\ link.set_registry_result # "None"

\* C4: a run reports success (exit code 0) only if every contract deployment
\* and every configuration step it attempted succeeded; otherwise it exits
\* with a failure signal.
C4_Claim ==
    (pc = "idle" /\ run.n > 0) =>
        (run.exit_code = 0 => AllStepsSucceeded)

\* declare_hist: results of successive declare_contract calls for one artifact
\* C5: when a declare_contract call got its class identifier from a fresh
\* declaration and the next call for the same artifact meets the
\* already-declared report, both return the same class identifier.
C5_IdempotentDeclare ==
    \A c \in CONTRACTS :
        \A i \in 1..(Len(declare_hist[c]) - 1) :
            (/\ declare_hist[c][i].kind = "fresh"
             /\ declare_hist[c][i].class_hash # None
             /\ declare_hist[c][i + 1].kind = "already")
            => /\ declare_hist[c][i + 1].class_hash = declare_hist[c][i].class_hash
               /\ declare_hist[c][i + 1].class_hash = ClassHashOf(c)

C5_Witness ==
    /\ Len(declare_hist["nft"]) = 2
    /\ declare_hist["nft"][1].kind = "fresh"
    /\ declare_hist["nft"][1].class_hash = ClassHashOf("nft")
    /\ declare_hist["nft"][2].kind = "already"
    /\ declare_hist["nft"][2].class_hash = ClassHashOf("nft")

\* C6: when declare reports the class as already declared, declare_contract
\* returns the reported identifier without a wait, the flow goes on to the
\* deploy step, and the deploy operation carries that identifier.
C6_AlreadyDeclaredProceeds ==
    [][/\ (pc = "declare" /\ flow'.declare_kind = "already") =>
            /\ pc' = "deploy"
            /\ flow'.class_hash = ClassHashOf(step)
            /\ flow'.result # "fail"
            /\ w' = w
       /\ (pc = "deploy" /\ flow.declare_kind = "already"
           /\ Len(ops') = Len(ops) + 1) =>
            /\ ops'[Len(ops')].op = "deploy"
            /\ ops'[Len(ops')].class_hash = ClassHashOf(step)]_vars

C6_Witness ==
    /\ flow.declare_kind = "already"
    /\ pc = "save"
    /\ ops[Len(ops)].op = "deploy"
    /\ ops[Len(ops)].class_hash = ClassHashOf(step)

NoDeployNoRecord(c) ==
    /\ \A j \in 1..Len(ops) : ~(ops[j].op = "deploy" /\ ops[j].contract = c)
    /\ c \notin RecordedTypes(deployments)
    /\ c \notin RecordedTypes(persisted)

DeclareWaitFailed ==
    flow.declare_kind = "fresh_tx" /\ flow.declare_wait \notin {"none", "Confirmed"}

DeclareWaitStops ==
    DeclareWaitFailed => (flow.result = "fail" /\ NoDeployNoRecord(flow.contract))

\* C7: a fresh declaration that prints a transaction hash is waited for; when
\* the wait ends in anything but Confirmed the flow fails with no deploy
\* submitted and no record written for that contract, and the deploy step is
\* reached only after Confirmed.
C7_DeclareWaitGuardsDeploy ==
    [][/\ (pc = "declare" /\ flow'.declare_kind = "fresh_tx") =>
            /\ pc' = "wait_query"
            /\ w'.ctx = "declare"
            /\ w'.tx = DeclareTx(step)
       /\ (pc = "wait_done" /\ w.ctx = "declare" /\ w.result # "Confirmed") =>
            pc' = "flow_return" /\ flow'.result = "fail"
       /\ DeclareWaitStops'
       /\ (flow'.declare_kind = "fresh_tx" /\ pc' \in {"deploy", "save"}) =>
            flow'.declare_wait = "Confirmed"]_vars

C7_Witness ==
    /\ pc = "flow_return"
    /\ DeclareWaitFailed
    /\ flow.contract = "registry"
    /\ flow.result = "fail"

\* C8: when every status query reports the transaction as still pending, a
\* wait with attempt budget n makes exactly n queries and n-1 sleeps and
\* returns TimedOut.
C8_TimeoutBoundary ==
    (pc = "wait_done" /\ w.allPending) =>
        /\ w.queries = w.max_attempts
        /\ w.sleeps = w.max_attempts - 1
        /\ w.result = "TimedOut"

C8_Witness ==
    /\ pc = "wait_done"
    /\ w.allPending
    /\ w.max_attempts = 3
    /\ w.queries = 3
    /\ w.sleeps = 2
    /\ w.result = "TimedOut"

\* C9: the waiter makes one status query per attempt and returns Confirmed at
\* the first attempt k whose query signals success, after exactly k queries
\* and k-1 sleeps; it never queries or sleeps after a success.
C9_ConfirmedAtFirstSuccess ==
    /\ pc = "wait_query" => w.successes = 0 /\ w.queries = w.attempt
                            /\ w.sleeps = w.attempt
    /\ pc = "wait_sleep" => w.successes = 0 /\ w.queries = w.attempt + 1
                            /\ w.sleeps = w.attempt
    /\ (pc = "wait_done" /\ w.successes > 0) =>
          /\ w.result = "Confirmed"
          /\ w.successes = 1
          /\ w.queries = w.attempt + 1
          /\ w.sleeps = w.attempt
    /\ (pc = "wait_done" /\ w.result = "Confirmed") => w.successes = 1

C9_Witness ==
    /\ pc = "wait_done"
    /\ w.result = "Confirmed"
    /\ w.queries = 2
    /\ w.sleeps = 1

\* C10: when a status query reports the transaction as rejected, the wait
\* returns Failed at once, with no further query or sleep.
C10_Claim ==
    (pc \in {"wait_query", "wait_sleep", "wait_done"} /\ w.sawRejected) =>
        (pc = "wait_done" /\ w.result = "Failed")

InWait == pc \in {"wait_query", "wait_sleep"}

\* the status command of this step's query failed, for the first time in the wait
FirstErrorNow == pc = "wait_query" /\ ~w.sawError /\ w'.sawError

\* C11: a status query whose command fails counts as still pending for that
\* attempt only: the wait is not ended by it before the budget is used up, one
\* attempt and one query are consumed, and a later attempt whose query signals
\* success still makes the wait return Confirmed.
C11_TransportErrorIsPending ==
    /\ [][FirstErrorNow =>
            /\ w'.queries = w.queries + 1
            /\ w'.successes = w.successes
            /\ IF w.attempt + 1 < w.max_attempts
               THEN pc' = "wait_sleep" /\ w'.result = "none"
                    /\ w'.attempt = w.attempt
               ELSE pc' = "wait_done" /\ w'.result = "TimedOut"]_vars
    /\ [](pc = "wait_done" /\ w.sawError =>
            /\ w.successes > 0 => w.result = "Confirmed"
            /\ w.successes = 0 => (w.result = "TimedOut"
                                   /\ w.queries = w.max_attempts))

C11_Witness ==
    /\ pc = "wait_done"
    /\ w.sawError
    /\ w.queries = 3
    /\ w.successes = 1
    /\ w.result = "Confirmed"

\* attempts and sleeps the loop of a wait can still make
WaitMeasure ==
    IF InWait
    THEN 2 * (w.max_attempts - w.attempt) - (IF pc = "wait_sleep" THEN 1 ELSE 0)
    ELSE 0

\* the loop is never stuck: its next query or sleep can be made
WaitCanStep ==
    /\ pc = "wait_query" => ENABLED wait_for_confirmation
    /\ pc = "wait_sleep" => ENABLED wait_sleep

\* C12: every wait terminates: whatever the status queries answer, the wait
\* makes at most max_attempts queries, is never stuck, every query and sleep
\* brings it strictly nearer to its return (WaitMeasure decreases and is never
\* negative), and it returns Confirmed or TimedOut, unless the operator
\* interrupts it, which ends the run.
C12_WaitTerminates ==
    /\ [](WaitCanStep /\ WaitMeasure >= 0)
    /\ [](pc \in {"wait_query", "wait_sleep", "wait_done"} =>
            /\ w.queries <= w.max_attempts
            /\ w.sleeps < w.max_attempts
            /\ pc = "wait_done" =>
                  (w.result \in {"Confirmed", "TimedOut"} /\ w.queries >= 1))
    /\ [][(InWait /\ run'.success # "Interrupted") =>
            /\ pc' \in {"wait_query", "wait_sleep", "wait_done"}
            /\ WaitMeasure' < WaitMeasure]_vars

C12_Witness ==
    /\ pc = "wait_done"
    /\ w.max_attempts = 3
    /\ w.queries = 3
    /\ w.sawRejected
    /\ w.sawError
    /\ w.result = "TimedOut"

HexDigitValue(ch) ==
    CASE ch = "0" -> 0 [] ch = "1" -> 1 [] ch = "2" -> 2 [] ch = "3" -> 3
      [] ch = "4" -> 4 [] ch = "5" -> 5 [] ch = "6" -> 6 [] ch = "7" -> 7
      [] ch = "8" -> 8 [] ch = "9" -> 9
      [] ch \in {"a", "A"} -> 10 [] ch \in {"b", "B"} -> 11
      [] ch \in {"c", "C"} -> 12 [] ch \in {"d", "D"} -> 13
      [] ch \in {"e", "E"} -> 14 [] ch \in {"f", "F"} -> 15

RECURSIVE DigitsValue(_, _)
DigitsValue(digits, acc) ==
    IF digits = << >> THEN acc
    ELSE DigitsValue(Tail(digits), 16 * acc + HexDigitValue(Head(digits)))

\* the number a 0x-prefixed address text denotes
HexValue(addr) == DigitsValue(SubSeq(addr, 3, Len(addr)), 0)

SameAddress(a, b) == HexValue(a) = HexValue(b)

\* the verdict the step that made the comparison has kept
StepVerdict ==
    CASE pc = "set_registry_return" ->
             (IF link.set_registry_result = "ok" THEN "verified" ELSE "failed")
      [] pc = "set_registry" -> link.pox_verify
      [] pc = "exit" -> link.sm_verify
      [] OTHER -> "none"

\* C13: a set-and-verify step yields Verified whenever the read-back address
\* denotes the same number as the address set, whatever its letter case and
\* zero padding; the read-back of the Registry address on TokenSimulation is
\* made only after the setter transaction was confirmed.
C13_VerifiedUnderNormalisedEquality ==
    /\ (readback.made /\ SameAddress(readback.expected, readback.returned)) =>
            (readback.verdict = "match" /\ StepVerdict = "verified")
    /\ (readback.made /\ pc = "set_registry_return") =>
            link.set_registry_tx \in confirmed

C13_Witness ==
    /\ pc = "set_registry_return"
    /\ readback.made
    /\ readback.expected = DeployedAddr(1, "registry")
    /\ readback.returned = <<"0", "x", "0", "0", "0", "d", "1", "3">>
    /\ link.set_registry_result = "ok"

\* C14: the comparison made by either normalisation of the code (normalize_address
\* after lower(), and lower().replace('0x', '').lstrip('0')) finds two hex
\* address texts equal iff they denote the same number; every text of the zero
\* address has the one normal form 0x0.
C14_NormalisationIsValueEquality ==
    pc = "compared" =>
        /\ readback.verdict = "match"
              <=> SameAddress(readback.expected, readback.returned)
        /\ HexValue(readback.expected) = 0 =>
              (/\ normalize_address(lower(readback.expected)) = <<"0", "x", "0">>
               /\ strip_compare_form(readback.expected) = << >>)

C14_Witness ==
    /\ pc = "compared"
    /\ readback.by = "normalize_address"
    /\ readback.expected = <<"0", "x", "0", "0", "A">>
    /\ readback.returned = <<"0", "x", "a">>
    /\ readback.verdict = "match"

MismatchSeen == readback.made /\ readback.verdict = "mismatch"

LastOp(log) == log[Len(log)]

OpSubmitted == Len(ops') = Len(ops) + 1

\* this step issues the getter call of a set-and-verify step
ReadbackIssued ==
    /\ OpSubmitted
    /\ LastOp(ops').op = "call"
    /\ \/ LastOp(ops').fn = "get_klive_pox_address"
       \/ LastOp(ops').fn = "get_registry_address"
          /\ LastOp(ops').contract = "kliver_tokens_core"

SetterOf(getter) ==
    IF getter = "get_klive_pox_address" THEN "set_klive_pox_address"
    ELSE "set_registry_address"

InvokedBefore(fn) ==
    \E j \in 1..Len(ops) : ops[j].op = "invoke" /\ ops[j].fn = fn

\* C16: the getter read-back of a cross-contract reference is issued only
\* after its setter was invoked and a wait on the setter's transaction ended in
\* Confirmed.
C16_Claim ==
    [][ReadbackIssued =>
          /\ InvokedBefore(SetterOf(LastOp(ops').fn))
          /\ InvokeTx(SetterOf(LastOp(ops').fn)) \in confirmed]_vars

SetterUnconfirmed ==
    /\ link.set_registry_tx # None
    /\ link.set_registry_tx \notin confirmed
    /\ pc \in {"set_registry_return", "exit"}
    /\ run.success # "Interrupted"

NoRegistryReadback ==
    \A j \in 1..Len(ops) :
        ~(ops[j].op = "call" /\ ops[j].fn = "get_registry_address"
          /\ ops[j].contract = "kliver_tokens_core")

C18_Claim ==
    [][/\ (pc = "set_pox" /\ link'.set_pox = "failed") =>
            (pc' = "exit" /\ run'.success = "False")
       /\ (pc = "set_registry" /\ link'.set_registry_result = "None") =>
            pc' = "set_registry_return"
       /\ (pc = "set_registry_return" /\ link.set_registry_result = "None") =>
            (pc' = "exit" /\ run'.success = "False")]_vars

InvokeSubmitted == OpSubmitted /\ LastOp(ops').op = "invoke"

NoMarketplaceOp ==
    \A j \in 1..Len(ops) : ops[j].contract \notin OptionalTypes

\* C19 as stated: no post-deployment setter is invoked before every contract
\* of the run, the configured marketplaces included, has been deployed.
C19_Original ==
    [][InvokeSubmitted =>
          (CoreTypes \cup cfg.base.opt) \subseteq RecordedTypes(deployments)]_vars

\* C19 amended: no post-deployment setter is invoked before the four core
\* contracts have been deployed and recorded; set_klive_pox_address comes
\* first, set_registry_address second, and the configured marketplaces are
\* deployed only after both setters.
C19_SettersAfterCore ==
    [][/\ InvokeSubmitted =>
            /\ RecordedTypes(deployments) = CoreTypes
            /\ NoMarketplaceOp
            /\ LastOp(ops').fn = "set_klive_pox_address" =>
                  ~InvokedBefore("set_registry_address")
            /\ LastOp(ops').fn = "set_registry_address" =>
                  InvokedBefore("set_klive_pox_address")
       /\ (OpSubmitted /\ LastOp(ops').contract \in OptionalTypes) =>
            (/\ InvokedBefore("set_klive_pox_address")
             /\ InvokedBefore("set_registry_address"))]_vars

C19_Witness ==
    /\ pc = "declare"
    /\ step = "sessions_marketplace"
    /\ InvokedBefore("set_klive_pox_address")
    /\ InvokedBefore("set_registry_address")
    /\ ~NoMarketplaceOp

\* the read call of this step's probe failed
ProbeFailedNow == pc = "validate_deps" /\ flow'.probe \in {"fail", "cairo_zero"}

\* the contract type of the dependency this step probes
ProbedType ==
    dep_contract_type(ProbedDeps(flow.kwargs)[flow.depIdx].key)

\* the flow was ended by a failed probe
ProbeAborted == flow.result = "fail" /\ flow.probe \in {"fail", "cairo_zero"}

NoMutatingOp(c) ==
    \A j \in 1..Len(ops) :
        ~(ops[j].contract = c /\ ops[j].op \in {"declare", "deploy", "invoke"})

\* C20 as stated: when the read call of a probe fails, deploy_full_flow aborts.
C20_Original ==
    [][ProbeFailedNow => (pc' = "flow_return" /\ flow'.result = "fail")]_vars

\* C20 amended: when the read call of a probe fails, deploy_full_flow aborts
\* before any declare, deploy or invoke is submitted for that contract and the
\* probe is not repeated, except that a payment token whose failed probe
\* reports a Cairo Zero contract is taken as valid and the flow goes on; a
\* verifier address is never probed.
C20_ProbeFailureAborts ==
    [][/\ (ProbeFailedNow /\ ~(flow'.probe = "cairo_zero"
                              /\ ProbedType = "payment_token")) =>
            /\ pc' = "flow_return"
            /\ flow'.result = "fail"
            /\ OpSubmitted
            /\ \A j \in 1..Len(ops) : ops[j] # LastOp(ops')
       /\ (ProbeFailedNow /\ flow'.probe = "cairo_zero"
           /\ ProbedType = "payment_token") =>
            (pc' = "compile" /\ flow'.result = "none")
       /\ (pc = "validate_deps" /\ ProbedType = "verifier") =>
            (ops' = ops /\ flow'.result = "none")
       /\ ProbeAborted =>
            /\ NoMutatingOp(flow.contract)
            /\ pc \in {"flow_return", "step_begin", "exit", "idle"}
            /\ (pc = "flow_return" => ops' = ops)]_vars

C20_Witness ==
    /\ pc = "flow_return"
    /\ ProbeAborted
    /\ flow.contract = "registry"
    /\ LastOp(ops).op = "call"
    /\ LastOp(ops).target = DeployedAddr(1, "kliver_tokens_core")
    /\ NoMutatingOp("registry")

\* a required dependency of the contract of the running flow is missing
DependencyMissing ==
    /\ flow.contract # "none"
    /\ ~validate_dependencies(flow.contract, flow.kwargs)

DeclareOrDeployOps(c) ==
    {i \in 1..Len(ops) : ops[i].contract = c /\ ops[i].op \in {"declare", "deploy"}}

\* C21: the dependency check comes before declare and deploy: while a required
\* dependency address or scalar of the flow's contract is missing or empty, no
\* declare and no deploy has been submitted for that contract.
C21_Claim ==
    DependencyMissing => DeclareOrDeployOps(flow.contract) = {}

\* the contract types whose constructor takes the owner
OwnerLed == {"nft", "kliver_tokens_core", "registry"}

\* the address and scalar parameters of a constructor, as declared
DeclaredParams(c) ==
    CASE c = "registry" ->
            <<"nft_address", "token_simulation_address", "verifier_address">>
      [] c \in {"klive_pox", "session_marketplace"} -> <<"registry_address">>
      [] c = "sessions_marketplace" ->
            <<"pox_address", "verifier_address", "payment_token_address",
              "purchase_timeout_seconds">>
      [] OTHER -> << >>

\* the value supplied under keyword k (a Registry without verifier gets 0x0)
SuppliedValue(k) ==
    IF \E e \in KeywordsOf(flow.contract) :
          e.key = k /\ \E i \in 1..Len(flow.kwargs) : flow.kwargs[i] = e
    THEN (CHOOSE e \in KeywordsOf(flow.contract) : e.key = k).value
    ELSE ZeroAddr

ParamsInDeclaredOrder ==
    [i \in 1..Len(DeclaredParams(flow.contract)) |->
        SuppliedValue(DeclaredParams(flow.contract)[i])]

Assembled == pc = "assembled" /\ flow.result # "fail"

\* C22 as stated: for every contract type the calldata is the owner, then the
\* dependency addresses and scalars in declaration order, whatever the order
\* of the keyword arguments.
C22_Original ==
    (Assembled /\ DeclaredParams(flow.contract) # << >>) =>
        flow.calldata = <<flow.owner_address>> \o ParamsInDeclaredOrder

\* C22 amended: whatever the order of the keyword arguments, the calldata
\* is the dependency addresses and scalars in declaration order, led by the
\* owner for NFT, TokenSimulation and Registry only; KlivePox,
\* SessionMarketplace and SessionsMarketplace take no owner.
C22_CalldataOrder ==
    Assembled =>
       /\ flow.contract \in OwnerLed => flow.calldata[1] = flow.owner_address
       /\ DeclaredParams(flow.contract) # << >> =>
              flow.calldata =
                 (IF flow.contract \in OwnerLed THEN <<flow.owner_address>>
                  ELSE << >>) \o ParamsInDeclaredOrder

C22_Witness ==
    /\ Assembled
    /\ flow.contract = "sessions_marketplace"
    /\ flow.kwargs[1].key = "purchase_timeout_seconds"
    /\ flow.kwargs[4].key = "pox_address"
    /\ flow.calldata = <<SuppliedAddr("klive_pox"), VerifierAddr,
                         PaymentTokenAddr, TimeoutStr>>

\* this step writes a record file
RecordWritten == Len(persisted') = Len(persisted) + 1

DeclaredFor(c) ==
    \E i \in 1..Len(ops) : ops[i].op = "declare" /\ ops[i].contract = c

RecordsOf(c) == {k \in 1..Len(persisted) : persisted[k].contract_type = c}

\* the contract types deploy_full_flow has returned a record for in this run
SucceededTypes ==
    RecordedTypes(deployments) \cup
    (IF pc = "flow_return" /\ flow.result = "ok" THEN {step} ELSE {})

\* one record per successful deployment, none for a failed one
OneRecordPerSuccess ==
    /\ \A c \in CONTRACTS : Cardinality(RecordsOf(c)) <= 1
    /\ RecordedTypes(persisted) = SucceededTypes
    /\ FlowFailedNow => RecordsOf(step) = {}

ConfigurationError == run.success = "Error"

\* C24: a run that ends on a missing or invalid environment or contract entry
\* has made no chain call (declare, deploy, invoke, call).
C24_Claim == ConfigurationError => ops = << >>

SubmittedOps(kind, c) ==
    {i \in 1..Len(ops) : ops[i].op = kind /\ ops[i].contract = c}

InvokeOps(fn) ==
    {i \in 1..Len(ops) : ops[i].op = "invoke" /\ ops[i].fn = fn}

Setters == {"set_klive_pox_address", "set_registry_address"}

\* C25: within one run declare and deploy are each submitted at most once per
\* contract and each setter invoke at most once; a declare or deploy is only
\* submitted by the flow of its contract while that flow has neither failed
\* nor returned a record.
C25_NoResubmission ==
    /\ [](/\ \A c \in CONTRACTS :
               /\ Cardinality(SubmittedOps("declare", c)) <= 1
               /\ Cardinality(SubmittedOps("deploy", c)) <= 1
          /\ \A fn \in Setters : Cardinality(InvokeOps(fn)) <= 1)
    /\ [][(OpSubmitted /\ LastOp(ops').op \in {"declare", "deploy"}) =>
             /\ LastOp(ops').contract = step
             /\ flow.result = "none"
             /\ step \notin RecordedTypes(deployments)]_vars

C25_Witness ==
    /\ pc = "exit"
    /\ step = "registry"
    /\ flow.deploy_wait = "TimedOut"
    /\ Cardinality(SubmittedOps("declare", "registry")) = 1
    /\ Cardinality(SubmittedOps("deploy", "registry")) = 1

\* C26: every record file written gets a name no earlier deployment, of this
\* run or of an earlier one, has used: no record file is overwritten.
C26_Claim ==
    [][RecordWritten =>
          Cardinality(disk'.files) = Cardinality(disk.files) + 1]_vars

Interrupted == run.success = "Interrupted"

\* the interrupt ends the run at once and leaves the operations submitted and
\* the records written as they are
InterruptStops ==
    /\ interrupt
    /\ pc' = "exit"
    /\ Interrupted'
    /\ ops' = ops
    /\ persisted' = persisted
    /\ disk' = disk
    /\ deployments' = deployments

\* C27: an operator interrupt at any point of a wait's polling loop (the status
\* query or the sleep) stops the run with a failure signal: until the process
\* has exited with code 1 no chain operation is submitted and the record files
\* and their contents stay as they were.
C27_InterruptStopsRun ==
    /\ [](InWait => ENABLED InterruptStops)
    /\ [][(Interrupted /\ pc # "idle") =>
             /\ pc = "exit" /\ pc' = "idle"
             /\ run'.exit_code = 1
             /\ ops' = ops
             /\ persisted' = persisted
             /\ disk' = disk]_vars

C27_Witness ==
    /\ Interrupted
    /\ pc = "idle"
    /\ run.exit_code = 1
    /\ step = "klive_pox"
    /\ Len(persisted) = 3
    /\ Cardinality(disk.files) = 3
    /\ \E i \in 1..Len(ops) : ops[i].op = "deploy" /\ ops[i].contract = "klive_pox"

\* the operator has supplied everything the contract type of a
\* single-contract run requires
OperatorSupplied(c) ==
    CASE c = "registry" ->
            /\ cfg.cli.nft_address # None
            /\ cfg.cli.token_simulation_address # None
      [] c \in {"klive_pox", "session_marketplace"} ->
            cfg.cli.registry_address # None
      [] c = "sessions_marketplace" ->
            /\ cfg.cli.registry_address # None
            /\ cfg.base.payment_token # None
            /\ cfg.base.timeout # None
            /\ (cfg.base.verifier_cli # None \/ cfg.base.verifier_cfg # None)
      [] OTHER -> TRUE

\* the values deploy_full_flow was called with are the supplied ones
SuppliedValuesPassed(c) ==
    CASE c = "registry" ->
            /\ kwget(flow.kwargs, "nft_address") = cfg.cli.nft_address
            /\ kwget(flow.kwargs, "token_simulation_address") =
                  cfg.cli.token_simulation_address
      [] c \in {"klive_pox", "session_marketplace"} ->
            kwget(flow.kwargs, "registry_address") = cfg.cli.registry_address
      [] c = "sessions_marketplace" ->
            /\ kwget(flow.kwargs, "payment_token_address") =
                  cfg.base.payment_token
            /\ kwget(flow.kwargs, "purchase_timeout_seconds") = cfg.base.timeout
      [] OTHER -> TRUE

\* C28: in a single-contract run whose operator supplied every required
\* dependency and scalar, deploy_full_flow is called with those values and
\* they pass the dependency check; in a run with a required one missing no
\* chain call is made.
C28_Claim ==
    (cfg.contract # "all" /\ run.n > 0) =>
        IF OperatorSupplied(cfg.contract)
        THEN flow.contract # "none" =>
                /\ SuppliedValuesPassed(flow.contract)
                /\ validate_dependencies(flow.contract, flow.kwargs)
        ELSE ops = << >>

\* the setter invoke ops[i] is held as a post-deployment operation by the
\* record of the contract it configured
HeldByRecord(i) ==
    \E j \in 1..Len(deployments) :
        /\ deployments[j].contract_type = ops[i].contract
        /\ \E k \in 1..Len(deployments[j].post_deployment_ops) :
              LET o == deployments[j].post_deployment_ops[k]
              IN /\ o.method = ops[i].fn
                 /\ o.calldata = ops[i].args

\* the setter invoke ops[i] was executed: its command succeeded and, where a
\* wait was made on its transaction, the wait ended in Confirmed
Executed(i) ==
    /\ ops[i].op = "invoke"
    /\ \/ ops[i].fn = "set_klive_pox_address" /\ link.set_pox = "ok"
       \/ /\ ops[i].fn = "set_registry_address"
          /\ link.set_registry_tx # None
          /\ link.set_registry_tx \in confirmed

\* C29: when a run has ended well, every setter it executed is held, with its
\* method name and calldata, as a post-deployment operation by the record of
\* the contract it configured.
C29_Claim ==
    (pc = "exit" /\ run.success = "True") =>
        \A i \in 1..Len(ops) : Executed(i) => HeldByRecord(i)

IsPrefix(a, b) == Len(a) <= Len(b) /\ a = SubSeq(b, 1, Len(a))

\* record b is record a, possibly with post-deployment operations appended
SameButOpsAppended(a, b) ==
    /\ [a EXCEPT !.post_deployment_ops = << >>] =
          [b EXCEPT !.post_deployment_ops = << >>]
    /\ IsPrefix(a.post_deployment_ops, b.post_deployment_ops)

FlowSucceededNow == pc = "flow_return" /\ flow.result = "ok"

\* C30: within a run the list of records only grows: a successful deployment,
\* and nothing else, appends exactly one record at the end (the record of the
\* contract just deployed), and every record already in the list keeps its
\* place and its contents, except for post-deployment operations appended to
\* it.
C30_RecordsOnlyGrow ==
    [][pc # "idle" =>
          /\ Len(deployments') \in {Len(deployments), Len(deployments) + 1}
          /\ \A j \in 1..Len(deployments) :
                SameButOpsAppended(deployments[j], deployments'[j])
          /\ Len(deployments') = Len(deployments) + 1 <=> FlowSucceededNow
          /\ FlowSucceededNow =>
                LET r == deployments'[Len(deployments')]
                IN /\ r.contract_type = step
                   /\ r.contract_address = flow.returned_address
                   /\ r.class_hash = flow.class_hash
                   /\ r.post_deployment_ops = << >>]_vars

C30_Witness ==
    /\ Len(deployments) = 5
    /\ RecordedTypes(deployments) =
          CoreTypes \cup {"sessions_marketplace"}
    /\ deployments[5].contract_type = "sessions_marketplace"
    /\ Len(deployments[2].post_deployment_ops) = 1
    /\ deployments[2].post_deployment_ops[1].method = "set_registry_address"

\* the budget and the sleep of the running wait are those of the settings
WaitUsesSettings ==
    LET settings == get_deployment_settings(cfg.base)
    IN /\ w.max_attempts = settings.max_retries
       /\ sleep_seconds = settings.retry_interval

\* C31: every wait on a transaction uses the attempt count and the poll
\* interval of the environment's deployment settings: while a wait is running
\* its attempt budget is max_retries and its sleep is retry_interval seconds.
\* The waiter is given neither: its budget is its own parameter, which no
\* caller passes, and its sleep is the literal of utils.py:185.
C31_Claim == InWait => WaitUsesSettings

\* the declare of the running flow printed neither a class identifier nor an
\* already-declared report
DeclareHardFailure == flow.contract # "none" /\ flow.declare_kind = "error"

\* C32: when declare ends in a hard failure, declare_contract returns no class
\* identifier and deploy_full_flow aborts: the flow has failed, no deploy has
\* been submitted for its contract and no record of it has been persisted.
C32_DeclareFailureAborts ==
    DeclareHardFailure =>
       /\ flow.class_hash = None
       /\ declare_hist[flow.contract] # << >>
       /\ LastOp(declare_hist[flow.contract]).class_hash = None
       /\ flow.result = "fail"
       /\ SubmittedOps("deploy", flow.contract) = {}
       /\ RecordsOf(flow.contract) = {}

C32_Witness ==
    /\ DeclareHardFailure
    /\ FlowFailedNow
    /\ flow.contract = "registry"
    /\ SubmittedOps("declare", "registry") # {}

SetterReturned == pc = "setter_return"

\* the number a read-back text denotes, in hexadecimal after 0x and in decimal
\* otherwise
RECURSIVE DecimalValue(_, _)
DecimalValue(digits, acc) ==
    IF digits = << >> THEN acc
    ELSE DecimalValue(Tail(digits), 10 * acc + HexDigitValue(Head(digits)))

TextNumber(t) == IF startswith0x(t) THEN HexValue(t) ELSE DecimalValue(t, 0)

\* the read-back succeeded and the slot holds the value that was set
ReadBackEqualsValueSet ==
    /\ link.called
    /\ link.call_success
    /\ IF link.compare = "str"
       THEN TextNumber(link.actual) = link.seconds
       ELSE SameAddress(link.actual, link.value)

\* C33: a generic setter returns a non-empty result exactly when its invoke
\* succeeded and its transaction was confirmed, whatever the read-back gives,
\* and the result carries a validation entry exactly when the read-back
\* succeeded and equals the value set.
C33_Claim ==
    SetterReturned =>
       /\ link.result # None <=> (link.invoke = "ok" /\ link.wait = "Confirmed")
       /\ (link.result # None /\ link.result.validation # None)
             <=> ReadBackEqualsValueSet

\* C34: the two address comparisons of the code, normalize_address and
\* lower / replace('0x', '') / lstrip('0'), give the same verdict for every
\* pair of address texts, with or without the 0x prefix, in any letter case
\* and with any zero padding.
C34_Claim ==
    pc = "compared_both" =>
        readback.verdict.normalize_address = readback.verdict.strip

\* a verifier address was given on the command line or stands in the
\* configuration of the Registry
VerifierSupplied ==
    cfg.base.verifier_cli # None \/ cfg.base.verifier_cfg # None

\* C35: in deploy-all the flow of SessionsMarketplace is started only if a
\* PoX address, a verifier address supplied by the operator or by the
\* configuration, a payment token and a purchase timeout are all available:
\* without a supplied verifier address the marketplace is skipped.
C35_Claim ==
    (cfg.contract = "all" /\ "sessions_marketplace" \in attempted) =>
        /\ deployed_addresses["pox"] # None
        /\ VerifierSupplied
        /\ cfg.base.payment_token # None
        /\ cfg.base.timeout # None

\* a deploy-all run is under way: deploy_all_contracts has not returned
InRun == cfg.contract = "all" /\ pc # "idle"

\* the width of a wait in the measure of a run
WaitSpan == 2 * MaxAttemptsBound + 2

\* how far the position is from the end of its step of the plan
PcRank ==
    CASE pc = "step_begin" -> 30
      [] pc = "check_prerequisites" -> 29
      [] pc = "get_account_info" -> 28
      [] pc = "validate_deps" -> 27 - flow.depIdx
      [] pc = "compile" -> 20
      [] pc = "declare" -> 19
      [] InWait /\ w.ctx = "declare" -> 18
      [] pc = "wait_done" /\ w.ctx = "declare" -> 17
      [] pc = "deploy" -> 16
      [] InWait /\ w.ctx = "deploy" -> 15
      [] pc = "wait_done" /\ w.ctx = "deploy" -> 14
      [] pc = "save" -> 13
      [] pc = "flow_return" -> 12
      [] pc = "set_pox" -> 11
      [] pc = "verify_pox" -> 10
      [] pc = "set_registry" -> 9
      [] InWait /\ w.ctx = "set_registry" -> 8
      [] pc = "wait_done" /\ w.ctx = "set_registry" -> 7
      [] pc = "validate_registry" -> 6
      [] pc = "set_registry_return" -> 5
      [] pc = "verify_sm" -> 4
      [] OTHER -> 0

\* the steps of the plan that are still to come
StepsLeft == IF step \in CONTRACTS THEN 6 - TypeIndex(step) ELSE 0

\* a number that every step of a run makes smaller: the steps left, then the
\* position in the step, then what is left of the running wait
RunMeasure ==
    IF pc \in {"exit", "idle"} THEN 0
    ELSE (StepsLeft * 31 + PcRank) * WaitSpan
         + (IF InWait THEN WaitMeasure + 1 ELSE 0)

\* the most gateway commands one run can submit: per contract three probes, a
\* declare and a deploy, and the five commands of the post-deployment wiring
MaxOpsPerRun == 6 * 5 + 5

RunReturned == cfg.contract = "all" /\ pc = "exit"

\* C36: every deploy-all run terminates: whatever the gateway commands and the
\* status queries answer, the run is never stuck, every step brings it
\* strictly nearer to its return (RunMeasure decreases and is positive until
\* the return), it submits a bounded number of commands, and it returns
\* success or failure unless the configuration is defective or the operator
\* interrupts it.
C36_RunTerminates ==
    /\ [](InRun => (ENABLED Next /\ Len(ops) <= MaxOpsPerRun))
    /\ []((InRun /\ pc # "exit") => RunMeasure > 0)
    /\ [][(InRun /\ pc # "exit") => (InRun' /\ RunMeasure' < RunMeasure)]_vars
    /\ [](RunReturned =>
            /\ run.success \in {"True", "False", "Error", "Interrupted"}
            /\ (cfg.environment_ok /\ cfg.missing = {}
                /\ run.success # "Interrupted")
                  => run.success \in {"True", "False"})

C36_Witness ==
    /\ RunReturned
    /\ run.success = "True"
    /\ Len(deployments) = 5
    /\ \E i \in 1..Len(ops) : ops[i].fn = "set_registry_address"

\* C37: every contract type a deployment entry point passes to
\* ContractDeployer is a key of the factory, so get_contract raises for none
\* of the entry points' requests.
C37_Claim ==
    pc \in {"constructed", "raised"} =>
        /\ link.contract_type \in FactoryKeys
        /\ link.raised # "get_contract"

Encoded == pc = "encoded"

\* the number a decimal text of at most four digits denotes
SmallNumber(t) == DecimalValue(t, 0)

\* the limbs (base 10000, least significant first) of a decimal text
RECURSIVE LimbsOf(_)
LimbsOf(t) ==
    IF Len(t) <= 4
    THEN (IF SmallNumber(t) = 0 THEN << >> ELSE <<SmallNumber(t)>>)
    ELSE <<SmallNumber(SubSeq(t, Len(t) - 3, Len(t)))>>
         \o LimbsOf(SubSeq(t, 1, Len(t) - 4))

\* long division of limbs[1..i] by d: the limbs of the quotient and the
\* remainder, the remainder of the higher limbs being rem
RECURSIVE big_div(_, _, _, _)
big_div(limbs, i, d, rem) ==
    IF i = 0 THEN [q |-> << >>, r |-> rem]
    ELSE LET cur == rem * 10000 + limbs[i]
             rest == big_div(limbs, i - 1, d, cur % d)
         IN [q |-> rest.q \o <<cur \div d>>, r |-> rest.r]

RECURSIVE StripZeros(_)
StripZeros(limbs) ==
    IF limbs # << >> /\ limbs[Len(limbs)] = 0
    THEN StripZeros(SubSeq(limbs, 1, Len(limbs) - 1))
    ELSE limbs

\* the len big-endian bytes of an integer, with what does not fit in them
RECURSIVE to_bytes(_, _)
to_bytes(limbs, len) ==
    IF len = 0 THEN [bytes |-> << >>, rest |-> limbs]
    ELSE LET dm == big_div(limbs, Len(limbs), 256, 0)
             q == StripZeros(dm.q)
         IN IF q = << >>
            THEN [bytes |-> [i \in 1..len |-> IF i = len THEN dm.r ELSE 0],
                  rest |-> << >>]
            ELSE LET high == to_bytes(q, len - 1)
                 IN [bytes |-> high.bytes \o <<dm.r>>, rest |-> high.rest]

\* the fields of a calldata [n, w1..wn, pending, pending_len]
DataLen(out) == DecimalValue(out[1], 0)

PendingWord(out) == out[Len(out) - 1]

PendingLen(out) == DecimalValue(out[Len(out)], 0)

\* the bytes a reader of the ByteArray gets: 31 bytes of each full word, then
\* pending_len bytes of the pending word
RECURSIVE WordsBytes(_, _)
WordsBytes(out, k) ==
    IF k = 0 THEN << >>
    ELSE WordsBytes(out, k - 1) \o to_bytes(LimbsOf(out[k + 1]), 31).bytes

Decoded(out) ==
    WordsBytes(out, DataLen(out))
    \o to_bytes(LimbsOf(PendingWord(out)), PendingLen(out)).bytes

\* every word fits in the bytes it is read as
WordsFit(out) ==
    /\ \A k \in 1..DataLen(out) : to_bytes(LimbsOf(out[k + 1]), 31).rest = << >>
    /\ to_bytes(LimbsOf(PendingWord(out)), PendingLen(out)).rest = << >>

\* C38: string_to_bytearray_calldata(text) is [n, w1..wn, pending,
\* pending_len] of length n + 3; reading the n words as 31 big-endian bytes
\* each and the pending word as pending_len bytes gives back exactly the
\* UTF-8 bytes of the text; the empty text gives [0, 0, 0].
C38_RoundTrip ==
    Encoded =>
       /\ Len(link.result) = DataLen(link.result) + 3
       /\ WordsFit(link.result)
       /\ Decoded(link.result) = encode(link.text)
       /\ Len(encode(link.text)) =
             31 * DataLen(link.result) + PendingLen(link.result)
       /\ link.text = << >> => link.result = <<<<"0">>, <<"0">>, <<"0">>>>

C38_Witness ==
    /\ Encoded
    /\ Len(link.text) = 22
    /\ link.text[1] = 8364
    /\ link.text[2] = 233
    /\ DataLen(link.result) = 1
    /\ PendingLen(link.result) = 24

\* C39: the pending word is always shorter than a full word: pending_len is
\* in 0..30, and a text whose byte length is a positive multiple of 31 has all
\* its chunks as full words and an empty pending word.
C39_Claim ==
    Encoded =>
       /\ PendingLen(link.result) \in 0..30
       /\ (Len(encode(link.text)) > 0 /\ Len(encode(link.text)) % 31 = 0) =>
             /\ DataLen(link.result) = Len(encode(link.text)) \div 31
             /\ PendingWord(link.result) = <<"0">>
             /\ PendingLen(link.result) = 0

====
